---- MODULE Spec2Model ----
(***************************************************************************)
(* Burrow: directory-scoped secret store.                                  *)
(*                                                                         *)
(* Strings that the code inspects character by character (paths, keys,     *)
(* values) are sequences of one-character strings, so that the SQL LIKE    *)
(* operator, String.localeCompare, the key pattern and the shell escaping  *)
(* are computed the way the code computes them.                            *)
(*                                                                         *)
(* The modelled platform is POSIX (isWindows() = false) and the modelled   *)
(* filesystem holds directories only (no symbolic links).                  *)
(***************************************************************************)
EXTENDS Integers, Sequences, FiniteSets, TLC

VARIABLES
    secrets,    \* table secrets: (path, key) -> entry, PRIMARY KEY (path, key)
    trusted,    \* table trusted_paths: path -> inode, path is the PRIMARY KEY
    inodes,     \* the filesystem: directory -> inode number, 0 when missing
    session,    \* the shell session that calls burrow: the kind of shell its
                \* hook script names, BURROW_AUTOLOAD ("" when it is not set)
                \* and whether messages are coloured
    hookState,  \* the file hook-state.json of HookStateManager, or the note
                \* that there is none
    store,      \* the Storage object and its file: whether the handle db is
                \* open, the marker user_version of the file, and whether
                \* the file holds the tables and indexes of burrow
    shellEnv,   \* the environment of each shell session: per variable its
                \* value (or undefined), whether the command that wrote it
                \* last was a set command that burrow emitted, and whether
                \* burrow has ever emitted a set command for it in this shell
    last        \* the last call made on the client and what it returned,
                \* or a note that the filesystem changed since

vars == <<secrets, trusted, inodes, session, hookState, store, shellEnv, last>>

(***************************************************************************)
(* Bounds of the model.                                                    *)
(***************************************************************************)
\* at most this many rows in the secrets table
MaxEntries == 2
\* at most this many rows in the trusted_paths table
MaxTrusted == 2
\* inode numbers the filesystem hands out are 1..MaxInode
MaxInode == 3

(***************************************************************************)
(* Directories, keys and values of the model.                              *)
(***************************************************************************)
DirRoot == <<"/">>
DirA == <<"/", "a">>
DirUpperA == <<"/", "A">>
DirUnderscore == <<"/", "_">>
DirAPercent == <<"/", "a", "%">>
DirAb == <<"/", "a", "b">>
DirASlashB == <<"/", "a", "/", "b">>

\* every canonical directory path of the model
Dirs == {DirRoot, DirA, DirUpperA, DirUnderscore, DirAPercent, DirAb, DirASlashB}

\* paths a caller may pass: canonical ones and one with a trailing separator
InputPaths == Dirs \cup {<<"/", "a", "/">>}

KeyUpper == <<"A">>
KeyLower == <<"a", "_">>
KeyDigitFirst == <<"1", "A">>
KeyDash == <<"A", "-">>
KeyEmpty == <<>>

\* keys a caller may pass
InputKeys == {KeyUpper, KeyLower, KeyDigitFirst, KeyDash, KeyEmpty}

ValuePlain == <<"x">>
ValueQuote == <<"'">>

\* values a caller may pass
InputValues == {ValuePlain, ValueQuote}

\* a stored value, and the tombstone (SQL NULL)
Entry(v) == [isNull |-> FALSE, value |-> v]
Tombstone == [isNull |-> TRUE, value |-> <<>>]

\* the store of a client that has made a storage call: Storage.ensureDb has
\* opened the handle and created the tables, and the marker of the file is 1
OpenedStore == [db |-> TRUE, userVersion |-> 1, schema |-> TRUE]

\* keys that pass validateEnvKey, the only ones that reach the tables
StoreKeys == {KeyUpper, KeyLower}

\* env[key] of a variable that the environment does not define
UndefinedValue == <<"undefined">>

\* the shell sessions that share one config directory
RaceShells == {"shell1", "shell2"}

\* shells that define none of the variables the store has keys for
FreshShellEnv ==
    [shell \in RaceShells |->
        [key \in StoreKeys |->
            [value |-> UndefinedValue, byTool |-> FALSE, wasSetByTool |-> FALSE]]]

(***************************************************************************)
(* Characters.                                                             *)
(***************************************************************************)
UpperLetters == {"A", "B", "C", "D", "E", "F", "G", "H", "I", "J", "K", "L", "M",
                 "N", "O", "P", "Q", "R", "S", "T", "U", "V", "W", "X", "Y", "Z"}
LowerLetters == {"a", "b", "c", "d", "e", "f", "g", "h", "i", "j", "k", "l", "m",
                 "n", "o", "p", "q", "r", "s", "t", "u", "v", "w", "x", "y", "z"}
Digits == {"0", "1", "2", "3", "4", "5", "6", "7", "8", "9"}

\* ASCII lower-casing of the letters that occur in the model's paths
ToLower(c) ==
    CASE c = "A" -> "a" [] c = "B" -> "b" [] c = "C" -> "c" [] c = "D" -> "d"
      [] c = "U" -> "u" [] OTHER -> c

sep == "/"

(***************************************************************************)
(* core/path.ts                                                            *)
(***************************************************************************)
StartsWith(s, prefix) ==
    /\ Len(prefix) <= Len(s)
    /\ SubSeq(s, 1, Len(prefix)) = prefix

\* canonicalize on a filesystem without symbolic links: realpath and
\* path.resolve both drop a trailing separator (the root keeps its own)
canonicalize(inputPath) ==
    IF Len(inputPath) > 1 /\ inputPath[Len(inputPath)] = sep
    THEN SubSeq(inputPath, 1, Len(inputPath) - 1)
    ELSE inputPath

\* a variant that compares by prefix, without the separator
isAncestorOfByPrefix(ancestorPath, descendantPath) ==
    StartsWith(descendantPath, ancestorPath)

isAncestorOf(ancestorPath, descendantPath) ==
    IF ancestorPath = descendantPath THEN TRUE
    ELSE LET ancestorWithSep ==
                 IF ancestorPath[Len(ancestorPath)] = sep
                 THEN ancestorPath
                 ELSE Append(ancestorPath, sep)
         IN  StartsWith(descendantPath, ancestorWithSep)

(***************************************************************************)
(* core/format.ts: the key pattern /^[A-Za-z_][A-Za-z0-9_]*$/              *)
(***************************************************************************)
KeyStartChars == UpperLetters \cup LowerLetters \cup {"_"}
KeyRestChars == KeyStartChars \cup Digits

\* a variant with the pattern ^[A-Za-z0-9_]*$: the class of the first
\* character is lost
validateEnvKeyAnyFirst(key) ==
    \A i \in 1..Len(key) : key[i] \in KeyRestChars

validateEnvKey(key) ==
    /\ Len(key) >= 1
    /\ key[1] \in KeyStartChars
    /\ \A i \in 2..Len(key) : key[i] \in KeyRestChars

(***************************************************************************)
(* storage/index.ts                                                        *)
(***************************************************************************)
\* SQLite's LIKE operator: '%' matches any run of characters, '_' matches
\* any one character, every other character matches itself ignoring ASCII
\* case; no ESCAPE clause is given in the queries
RECURSIVE Like(_, _)
Like(str, pattern) ==
    IF pattern = <<>> THEN str = <<>>
    ELSE IF Head(pattern) = "%"
         THEN \/ Like(str, Tail(pattern))
              \/ str # <<>> /\ Like(Tail(str), pattern)
    ELSE IF str = <<>> THEN FALSE
    ELSE IF Head(pattern) = "_" THEN Like(Tail(str), Tail(pattern))
    ELSE /\ ToLower(Head(str)) = ToLower(Head(pattern))
         /\ Like(Tail(str), Tail(pattern))

\* WHERE ? = path OR ? LIKE path || '/' || '%' OR path = '/'
AncestorWhere(canonicalPath, path) ==
    \/ canonicalPath = path
    \/ Like(canonicalPath, path \o <<"/", "%">>)
    \/ path = <<"/">>

\* SELECT DISTINCT path FROM secrets
getAllPaths == {pk[1] : pk \in DOMAIN secrets}

\* the rows come back unsorted: a set
getAncestorPaths(canonicalPath) ==
    {path \in getAllPaths : AncestorWhere(canonicalPath, path)}

\* SELECT key, value FROM secrets WHERE path = ?
getPathSecrets(canonicalPath) ==
    {pk[2] : pk \in {q \in DOMAIN secrets : q[1] = canonicalPath}}

\* INSERT ... ON CONFLICT(path, key) DO UPDATE SET value = excluded.value
setSecret(table, canonicalPath, key, entry) ==
    [pk \in DOMAIN table \cup {<<canonicalPath, key>>} |->
        IF pk = <<canonicalPath, key>> THEN entry ELSE table[pk]]

\* the row looked up by removeKey
removeKeyExisting(table, canonicalPath, key) ==
    <<canonicalPath, key>> \in DOMAIN table

\* DELETE FROM secrets WHERE path = ? AND key = ?
removeKey(table, canonicalPath, key) ==
    [pk \in DOMAIN table \ {<<canonicalPath, key>>} |-> table[pk]]

(***************************************************************************)
(* core/resolver.ts                                                        *)
(***************************************************************************)
\* primary collation weight of a character in the root collation that
\* String.prototype.localeCompare uses: '_' < '/' < '%' < a = A < b = B
PrimaryWeight(c) ==
    CASE c = "_" -> 1
      [] c = "/" -> 2
      [] c = "%" -> 3
      [] c \in {"a", "A"} -> 4
      [] c \in {"b", "B"} -> 5
      [] OTHER -> 6

\* tertiary weight: lower case sorts before upper case
TertiaryWeight(c) == IF c \in UpperLetters THEN 1 ELSE 0

\* lexicographic order of two weight sequences, a proper prefix first
RECURSIVE LexLess(_, _)
LexLess(a, b) ==
    IF b = <<>> THEN FALSE
    ELSE IF a = <<>> THEN TRUE
    ELSE IF Head(a) # Head(b) THEN Head(a) < Head(b)
    ELSE LexLess(Tail(a), Tail(b))

PrimaryKey(s) == [i \in 1..Len(s) |-> PrimaryWeight(s[i])]
TertiaryKey(s) == [i \in 1..Len(s) |-> TertiaryWeight(s[i])]

\* a.localeCompare(b) < 0: the primary weights of the whole strings decide,
\* the case of the letters only breaks a primary tie
localeCompareLess(a, b) ==
    \/ LexLess(PrimaryKey(a), PrimaryKey(b))
    \/ /\ PrimaryKey(a) = PrimaryKey(b)
       /\ LexLess(TertiaryKey(a), TertiaryKey(b))

\* ancestorPaths.sort((a, b) => a.localeCompare(b))
RECURSIVE sortPaths(_)
sortPaths(S) ==
    IF S = {} THEN <<>>
    ELSE LET first == CHOOSE p \in S : \A q \in S \ {p} : localeCompareLess(p, q)
         IN  <<first>> \o sortPaths(S \ {first})

\* the inner loop of resolve over one scope: a tombstone deletes the key,
\* a value sets it with this scope as its source
mergeScope(resolved, scopePath) ==
    LET keys == getPathSecrets(scopePath)
        dropped == {k \in keys : secrets[<<scopePath, k>>].isNull}
        kept == keys \ dropped
    IN  [k \in (DOMAIN resolved \ dropped) \cup kept |->
            IF k \in kept
            THEN [key |-> k, value |-> secrets[<<scopePath, k>>].value,
                  sourcePath |-> scopePath]
            ELSE resolved[k]]

RECURSIVE mergeScopes(_, _)
mergeScopes(resolved, scopes) ==
    IF scopes = <<>> THEN resolved
    ELSE mergeScopes(mergeScope(resolved, Head(scopes)), Tail(scopes))

EmptyMap == [k \in {} |-> k]

resolve(cwd) ==
    LET canonicalCwd == canonicalize(cwd)
        ancestorPaths == sortPaths(getAncestorPaths(canonicalCwd))
    IN  mergeScopes(EmptyMap, ancestorPaths)

Undefined == [key |-> <<>>, value |-> <<>>, sourcePath |-> <<>>]

\* Resolver.get: resolved.get(key), undefined when the key is not resolved
get(key, cwd) ==
    LET resolved == resolve(cwd)
    IN  IF key \in DOMAIN resolved THEN resolved[key] ELSE Undefined

(***************************************************************************)
(* api.ts: BurrowClient.set, block and remove                              *)
(***************************************************************************)
NoCall == [op |-> "none"]

\* a call of set, block or remove: its arguments and its outcome ("ok",
\* "true", "false", or "InvalidKey" for the error of assertValidEnvKey)
Call(op, key, value, path, ret) ==
    [op |-> op, key |-> key, value |-> value, path |-> path, ret |-> ret]

\* the table may grow by the row (path, key) within the model's bound
RoomFor(path, key) ==
    \/ <<canonicalize(path), key>> \in DOMAIN secrets
    \/ Cardinality(DOMAIN secrets) < MaxEntries

Set(key, value, path) ==
    /\ validateEnvKey(key) => RoomFor(path, key)
    /\ IF ~validateEnvKey(key)
       THEN /\ last' = Call("set", key, value, path, "InvalidKey")
            /\ UNCHANGED secrets
       ELSE /\ secrets' = setSecret(secrets, canonicalize(path), key, Entry(value))
            /\ last' = Call("set", key, value, path, "ok")
    /\ UNCHANGED <<trusted, inodes, session, hookState, store, shellEnv>>

Block(key, path) ==
    /\ validateEnvKey(key) => RoomFor(path, key)
    /\ IF ~validateEnvKey(key)
       THEN /\ last' = Call("block", key, <<>>, path, "InvalidKey")
            /\ UNCHANGED secrets
       ELSE /\ secrets' = setSecret(secrets, canonicalize(path), key, Tombstone)
            /\ last' = Call("block", key, <<>>, path, "ok")
    /\ UNCHANGED <<trusted, inodes, session, hookState, store, shellEnv>>

Remove(key, path) ==
    /\ IF ~validateEnvKey(key)
       THEN /\ last' = Call("remove", key, <<>>, path, "InvalidKey")
            /\ UNCHANGED secrets
       ELSE IF ~removeKeyExisting(secrets, canonicalize(path), key)
       THEN /\ last' = Call("remove", key, <<>>, path, "false")
            /\ UNCHANGED secrets
       ELSE /\ secrets' = removeKey(secrets, canonicalize(path), key)
            /\ last' = Call("remove", key, <<>>, path, "true")
    /\ UNCHANGED <<trusted, inodes, session, hookState, store, shellEnv>>

(***************************************************************************)
(* The filesystem: directories are removed (with all that is below them)   *)
(* and created; a new directory gets any inode number that is not in use.  *)
(***************************************************************************)
\* path.lastIndexOf(sep), counted from 1: 0 when path holds no separator
RECURSIVE lastIndexOfSep(_, _)
lastIndexOfSep(path, i) ==
    IF i = 0 THEN 0
    ELSE IF path[i] = sep THEN i
    ELSE lastIndexOfSep(path, i - 1)

\* a variant without the test lastSep === 0: the parent of /a is the empty
\* string
getParentPathWithoutRootCase(path) ==
    IF path = <<"/">> THEN <<"/">>
    ELSE LET lastSep == lastIndexOfSep(path, Len(path))
         IN  IF lastSep = 0 THEN SubSeq(path, 1, Len(path) - 1)
             ELSE SubSeq(path, 1, lastSep - 1)

\* getParentPath on POSIX; path.slice(0, -1) drops the last character when
\* path holds no separator
getParentPath(path) ==
    IF path = <<"/">> THEN <<"/">>
    ELSE LET lastSep == lastIndexOfSep(path, Len(path))
         IN  IF lastSep = 1 THEN <<"/">>
             ELSE IF lastSep = 0 THEN SubSeq(path, 1, Len(path) - 1)
             ELSE SubSeq(path, 1, lastSep - 1)

\* what last holds after the filesystem changed: no result of an earlier
\* call describes the present state any more
FsChange == [op |-> "fs"]

RemoveDir(dir) ==
    /\ dir # DirRoot
    /\ inodes[dir] # 0
    /\ inodes' = [d \in Dirs |-> IF isAncestorOf(dir, d) THEN 0 ELSE inodes[d]]
    /\ last' = FsChange
    /\ UNCHANGED <<secrets, trusted, session, hookState, store, shellEnv>>

CreateDir(dir, ino) ==
    /\ inodes[dir] = 0
    /\ inodes[getParentPath(dir)] # 0
    /\ \A d \in Dirs : inodes[d] # ino
    /\ inodes' = [inodes EXCEPT ![dir] = ino]
    /\ last' = FsChange
    /\ UNCHANGED <<secrets, trusted, session, hookState, store, shellEnv>>

(***************************************************************************)
(* storage/index.ts: the trusted_paths table                               *)
(***************************************************************************)
\* a variant with ON CONFLICT(path) DO NOTHING: a record that exists keeps
\* its old inode
addTrustedPathKeepingOld(table, canonicalPath, inode) ==
    [p \in DOMAIN table \cup {canonicalPath} |->
        IF p \in DOMAIN table THEN table[p] ELSE inode]

\* INSERT ... ON CONFLICT(path) DO UPDATE SET inode = excluded.inode
addTrustedPath(table, canonicalPath, inode) ==
    [p \in DOMAIN table \cup {canonicalPath} |->
        IF p = canonicalPath THEN inode ELSE table[p]]

\* the row looked up by removeTrustedPath
removeTrustedPathExisting(table, canonicalPath) == canonicalPath \in DOMAIN table

\* DELETE FROM trusted_paths WHERE path = ?
removeTrustedPath(table, canonicalPath) ==
    [p \in DOMAIN table \ {canonicalPath} |-> table[p]]

\* SELECT path, inode FROM trusted_paths WHERE ? = path OR
\* ? LIKE path || '/' || '%' OR path = '/'; the rows come back unsorted
getTrustedAncestorPaths(canonicalPath) ==
    {path \in DOMAIN trusted : AncestorWhere(canonicalPath, path)}

(***************************************************************************)
(* core/trust.ts                                                           *)
(***************************************************************************)
\* the orders in which a query may return a set of rows
RowOrders(S) ==
    {rows \in [1..Cardinality(S) -> S] :
        \A i, j \in 1..Cardinality(S) : i # j => rows[i] # rows[j]}

\* Array.prototype.sort((a, b) => b.path.length - a.path.length): stable,
\* rows of equal length keep the order the query returned them in
RECURSIVE insertByLength(_, _)
insertByLength(sorted, row) ==
    IF sorted = <<>> THEN <<row>>
    ELSE IF Len(Head(sorted)) >= Len(row)
         THEN <<Head(sorted)>> \o insertByLength(Tail(sorted), row)
    ELSE <<row>> \o sorted

RECURSIVE sortByLengthDesc(_)
sortByLengthDesc(rows) ==
    IF rows = <<>> THEN <<>>
    ELSE insertByLength(sortByLengthDesc(SubSeq(rows, 1, Len(rows) - 1)),
                        rows[Len(rows)])

TrustCheck(isTrusted, trustedPath, reason) ==
    [trusted |-> isTrusted, trustedPath |-> trustedPath, reason |-> reason]

\* the loop of isTrusted: the first row whose recorded inode is the current
\* inode of its path; a missing path (getInode throws) or another inode
\* moves on to the next row
\* a variant that accepts the first candidate that exists, without
\* comparing its inode with the recorded one
RECURSIVE firstExisting(_)
firstExisting(rows) ==
    IF rows = <<>> THEN TrustCheck(FALSE, <<>>, "inode-mismatch")
    ELSE IF inodes[Head(rows)] # 0
         THEN TrustCheck(TRUE, Head(rows), "")
    ELSE firstExisting(Tail(rows))

RECURSIVE firstValid(_)
firstValid(rows) ==
    IF rows = <<>> THEN TrustCheck(FALSE, <<>>, "inode-mismatch")
    ELSE IF inodes[Head(rows)] # 0 /\ inodes[Head(rows)] = trusted[Head(rows)]
         THEN TrustCheck(TRUE, Head(rows), "")
    ELSE firstValid(Tail(rows))

\* a variant whose canonicalize throws for a target that is missing
isTrustedOfExistingTarget(targetPath, canonicalizeThrows, rowOrder) ==
    IF canonicalizeThrows \/ inodes[canonicalize(targetPath)] = 0
    THEN TrustCheck(FALSE, <<>>, "path-not-found")
    ELSE IF getTrustedAncestorPaths(canonicalize(targetPath)) = {}
         THEN TrustCheck(FALSE, <<>>, "not-trusted")
    ELSE firstValid(sortByLengthDesc(rowOrder))

\* isTrusted(targetPath); canonicalizeThrows: realpath failed with an error
\* other than ENOENT; rowOrder: the order the query returns its rows in
isTrusted(targetPath, canonicalizeThrows, rowOrder) ==
    IF canonicalizeThrows THEN TrustCheck(FALSE, <<>>, "path-not-found")
    ELSE IF getTrustedAncestorPaths(canonicalize(targetPath)) = {}
         THEN TrustCheck(FALSE, <<>>, "not-trusted")
    ELSE firstValid(sortByLengthDesc(rowOrder))

\* TrustManager.trust: getInode throws when the directory is missing
Trust(path) ==
    /\ \/ canonicalize(path) \in DOMAIN trusted
       \/ Cardinality(DOMAIN trusted) < MaxTrusted
    /\ IF inodes[canonicalize(path)] = 0
       THEN /\ last' = [op |-> "trust", path |-> path, ret |-> "ENOENT", inode |-> 0]
            /\ UNCHANGED trusted
       ELSE /\ trusted' = addTrustedPath(trusted, canonicalize(path),
                                         inodes[canonicalize(path)])
            /\ last' = [op |-> "trust", path |-> path, ret |-> "ok",
                        inode |-> inodes[canonicalize(path)]]
    /\ UNCHANGED <<secrets, inodes, session, hookState, store, shellEnv>>

\* TrustManager.untrust
Untrust(path) ==
    /\ IF removeTrustedPathExisting(trusted, canonicalize(path))
       THEN /\ trusted' = removeTrustedPath(trusted, canonicalize(path))
            /\ last' = [op |-> "untrust", path |-> path, ret |-> "true"]
       ELSE /\ last' = [op |-> "untrust", path |-> path, ret |-> "false"]
            /\ UNCHANGED trusted
    /\ UNCHANGED <<secrets, inodes, session, hookState, store, shellEnv>>

\* a call of BurrowClient.isTrusted and its result
IsTrusted(path, canonicalizeThrows) ==
    /\ \E rowOrder \in RowOrders(getTrustedAncestorPaths(canonicalize(path))) :
           last' = [op |-> "isTrusted", path |-> path, threw |-> canonicalizeThrows,
                    check |-> isTrusted(path, canonicalizeThrows, rowOrder)]
    /\ UNCHANGED <<secrets, trusted, inodes, session, hookState, store, shellEnv>>

(***************************************************************************)
(* core/hook.ts (the variant that is handed previousKeys)                  *)
(***************************************************************************)
\* String.prototype.replace(/ch/g, replacement)
RECURSIVE replaceAll(_, _, _)
replaceAll(value, ch, replacement) ==
    IF value = <<>> THEN <<>>
    ELSE (IF Head(value) = ch THEN replacement ELSE <<Head(value)>>)
             \o replaceAll(Tail(value), ch, replacement)

escapeShellValue(value, shell) ==
    IF shell = "fish"
    THEN <<"'">> \o replaceAll(value, "'", <<"'", "\"", "'", "\"", "'">>) \o <<"'">>
    ELSE LET escaped ==
                 replaceAll(
                   replaceAll(
                     replaceAll(
                       replaceAll(
                         replaceAll(value, "\\", <<"\\", "\\">>),
                         "'", <<"\\", "'">>),
                       "\n", <<"\\", "n">>),
                     "\r", <<"\\", "r">>),
                   "\t", <<"\\", "t">>)
         IN  <<"$", "'">> \o escaped \o <<"'">>

\* new Set(options.previousKeys ?? []): the first occurrence of each key,
\* in the order of the list
RECURSIVE toKeySet(_)
toKeySet(keys) ==
    IF keys = <<>> THEN <<>>
    ELSE LET front == toKeySet(SubSeq(keys, 1, Len(keys) - 1))
             key == keys[Len(keys)]
         IN  IF \E i \in 1..Len(front) : front[i] = key THEN front
             ELSE Append(front, key)

\* the order in which the resolved Map iterates: a new key is appended, a
\* key that is set again keeps its place, a deleted key leaves the order;
\* rowsOf[scope] is the order in which the rows of the scope are returned
RECURSIVE mergeRowOrder(_, _, _)
mergeRowOrder(order, scopePath, rows) ==
    IF rows = <<>> THEN order
    ELSE LET key == Head(rows)
             next ==
                 IF secrets[<<scopePath, key>>].isNull
                 THEN SelectSeq(order, LAMBDA k : k # key)
                 ELSE IF \E i \in 1..Len(order) : order[i] = key THEN order
                 ELSE Append(order, key)
         IN  mergeRowOrder(next, scopePath, Tail(rows))

RECURSIVE resolveOrder(_, _, _)
resolveOrder(order, scopes, rowsOf) ==
    IF scopes = <<>> THEN order
    ELSE resolveOrder(mergeRowOrder(order, Head(scopes), rowsOf[Head(scopes)]),
                      Tail(scopes), rowsOf)

\* the row orders the queries of one resolve(cwd) may return
ScopeRowOrders(cwd) ==
    LET scopes == getAncestorPaths(canonicalize(cwd))
    IN  {rowsOf \in [scopes -> UNION {RowOrders(getPathSecrets(p)) : p \in scopes}] :
            \A p \in scopes : rowsOf[p] \in RowOrders(getPathSecrets(p))}

\* resolveToLoadedSecrets over resolve(cwd), in the iteration order of the Map
resolveToLoadedSecrets(cwd, rowsOf) ==
    LET resolved == resolve(cwd)
        order == resolveOrder(<<>>, sortPaths(getAncestorPaths(canonicalize(cwd))),
                              rowsOf)
    IN  [i \in 1..Len(order) |->
            [key |-> order[i], value |-> resolved[order[i]].value,
             sourcePath |-> resolved[order[i]].sourcePath]]

\* a variant that unsets every previous key, also those that are loaded
\* again
computeHookDiffUnsetAll(previousKeys, newSecrets) ==
    [toUnset |-> previousKeys, toSet |-> newSecrets]

\* a variant that sets only the secrets whose key was not loaded before
computeHookDiffSettingNewKeys(previousKeys, newSecrets) ==
    LET newKeys == {newSecrets[i].key : i \in 1..Len(newSecrets)}
    IN  [toUnset |-> SelectSeq(previousKeys, LAMBDA key : key \notin newKeys),
         toSet |-> SelectSeq(newSecrets,
                             LAMBDA secret :
                                 \A i \in 1..Len(previousKeys) :
                                     previousKeys[i] # secret.key)]

computeHookDiff(previousKeys, newSecrets) ==
    LET newKeys == {newSecrets[i].key : i \in 1..Len(newSecrets)}
    IN  [toUnset |-> SelectSeq(previousKeys, LAMBDA key : key \notin newKeys),
         toSet |-> newSecrets]

\* the decimal digits of a count
RECURSIVE toDigits(_)
toDigits(n) ==
    IF n < 10 THEN <<ToString(n)>>
    ELSE Append(toDigits(n \div 10), ToString(n % 10))

UndefinedMessage == <<"undefined">>

\* "ESC" stands for the escape character \x1b
formatHookMessage(diff, useColor) ==
    LET loaded == Len(diff.toSet)
        unloaded == Len(diff.toUnset)
        dim == IF useColor THEN <<"ESC", "[", "2", "m">> ELSE <<>>
        reset == IF useColor THEN <<"ESC", "[", "0", "m">> ELSE <<>>
    IN  IF loaded = 0 /\ unloaded = 0 THEN UndefinedMessage
        ELSE dim \o <<"b", "u", "r", "r", "o", "w", ":", " ">>
             \o (IF unloaded > 0 /\ loaded > 0
                 THEN <<"u", "n", "l", "o", "a", "d", "e", "d", " ">> \o toDigits(unloaded)
                      \o <<",", " ", "l", "o", "a", "d", "e", "d", " ">> \o toDigits(loaded)
                 ELSE IF loaded > 0
                 THEN <<"l", "o", "a", "d", "e", "d", " ">> \o toDigits(loaded) \o <<" ", "s", "e", "c", "r", "e", "t">>
                      \o (IF loaded = 1 THEN <<>> ELSE <<"s">>)
                 ELSE <<"u", "n", "l", "o", "a", "d", "e", "d", " ">> \o toDigits(unloaded) \o <<" ", "s", "e", "c", "r", "e", "t">>
                      \o (IF unloaded = 1 THEN <<>> ELSE <<"s">>))
             \o reset

UnsetCommand(key, shell) ==
    IF shell = "fish" THEN <<"s", "e", "t", " ", "-", "e", " ">> \o key ELSE <<"u", "n", "s", "e", "t", " ">> \o key

SetCommand(secret, shell) ==
    IF shell = "fish"
    THEN <<"s", "e", "t", " ", "-", "g", "x", " ">> \o secret.key \o <<" ">> \o escapeShellValue(secret.value, shell)
    ELSE <<"e", "x", "p", "o", "r", "t", " ">> \o secret.key \o <<"=">> \o escapeShellValue(secret.value, shell)

\* unset commands first, then set commands
generateShellCommands(diff, shell) ==
    [i \in 1..Len(diff.toUnset) |-> UnsetCommand(diff.toUnset[i], shell)]
        \o [i \in 1..Len(diff.toSet) |-> SetCommand(diff.toSet[i], shell)]

(***************************************************************************)
(* api.ts: BurrowClient.hook                                               *)
(***************************************************************************)
\* the result of the two early returns: nothing is loaded, the keys that
\* were loaded before are unset
hookNotLoaded(previousKeys, shell, useColor, reason) ==
    LET diff == computeHookDiff(previousKeys, <<>>)
    IN  [commands |-> generateShellCommands(diff, shell),
         message |-> IF Len(diff.toUnset) > 0
                     THEN formatHookMessage(diff, useColor)
                     ELSE UndefinedMessage,
         secrets |-> <<>>,
         unloadedKeys |-> diff.toUnset,
         trusted |-> FALSE,
         notTrustedReason |-> reason]

\* a variant of hook whose untrusted branch is missing: whatever the trust
\* check says, the secrets of cwd are resolved and loaded
hookWithoutTrustBranch(cwd, shell, previousKeyList, useColor, trustResult, rowsOf) ==
    LET previousKeys == toKeySet(previousKeyList)
    IN  IF session.autoload = "0"
        THEN hookNotLoaded(previousKeys, shell, useColor, "autoload-disabled")
        ELSE LET newSecrets == resolveToLoadedSecrets(cwd, rowsOf)
                 diff == computeHookDiff(previousKeys, newSecrets)
             IN  [commands |-> generateShellCommands(diff, shell),
                  message |-> formatHookMessage(diff, useColor),
                  secrets |-> newSecrets,
                  unloadedKeys |-> diff.toUnset,
                  trusted |-> trustResult.trusted,
                  notTrustedReason |-> trustResult.reason]

\* hook(cwd, {shell, previousKeys, useColor}); trustResult is the result of
\* isTrusted(cwd), which is called only when autoload is not disabled
hook(cwd, shell, previousKeyList, useColor, trustResult, rowsOf) ==
    LET previousKeys == toKeySet(previousKeyList)
    IN  IF session.autoload = "0"
        THEN hookNotLoaded(previousKeys, shell, useColor, "autoload-disabled")
        ELSE IF ~trustResult.trusted
        THEN hookNotLoaded(previousKeys, shell, useColor, trustResult.reason)
        ELSE LET newSecrets == resolveToLoadedSecrets(cwd, rowsOf)
                 diff == computeHookDiff(previousKeys, newSecrets)
             IN  [commands |-> generateShellCommands(diff, shell),
                  message |-> formatHookMessage(diff, useColor),
                  secrets |-> newSecrets,
                  unloadedKeys |-> diff.toUnset,
                  trusted |-> TRUE,
                  notTrustedReason |-> ""]

\* a call of hook from the session: its arguments, the result of the trust
\* check it made (trustChecked: whether it made one) and its result
Hook(cwd, previousKeyList, canonicalizeThrows) ==
    /\ \E rowOrder \in RowOrders(getTrustedAncestorPaths(canonicalize(cwd))),
          rowsOf \in ScopeRowOrders(cwd) :
           LET trustResult == isTrusted(cwd, canonicalizeThrows, rowOrder)
           IN  last' = [op |-> "hook", cwd |-> cwd, threw |-> canonicalizeThrows,
                        previousKeys |-> previousKeyList,
                        trustChecked |-> session.autoload # "0",
                        trustResult |-> IF session.autoload # "0" THEN trustResult
                                        ELSE TrustCheck(FALSE, <<>>, "not-called"),
                        result |-> hook(cwd, session.shell, previousKeyList,
                                        session.useColor, trustResult, rowsOf)]
    /\ UNCHANGED <<secrets, trusted, inodes, session, hookState, store, shellEnv>>

\* the user sets or clears BURROW_AUTOLOAD in the environment
SetAutoload(value) ==
    /\ session.autoload # value
    /\ session' = [session EXCEPT !.autoload = value]
    /\ last' = [op |-> "env"]
    /\ UNCHANGED <<secrets, trusted, inodes, hookState, store, shellEnv>>

(***************************************************************************)
(* core/hook.ts: HookStateManager, the hook design that keeps its state    *)
(* in hook-state.json.  loadedAt, a timestamp, is left out of the state.   *)
(***************************************************************************)
\* what load() returns when there is no readable state file
NoHookState == [exists |-> FALSE]

HookState(loaded, lastDir, skippedKeys) ==
    [exists |-> TRUE, secrets |-> loaded, lastDir |-> lastDir,
     skippedKeys |-> skippedKeys]

\* currentState?.secrets ?? [] and currentState?.skippedKeys ?? []
stateSecrets(currentState) ==
    IF currentState.exists THEN currentState.secrets ELSE <<>>

stateSkippedKeys(currentState) ==
    IF currentState.exists THEN currentState.skippedKeys ELSE <<>>

Includes(seq, x) == \E i \in 1..Len(seq) : seq[i] = x

\* Map.prototype.set over entries with a key field: a key that is present
\* keeps its place and takes the new entry, a new key is appended
mapSet(entries, secret) ==
    IF \E i \in 1..Len(entries) : entries[i].key = secret.key
    THEN [i \in 1..Len(entries) |->
             IF entries[i].key = secret.key THEN secret ELSE entries[i]]
    ELSE Append(entries, secret)

RECURSIVE mapSetAll(_, _)
mapSetAll(entries, secretList) ==
    IF secretList = <<>> THEN entries
    ELSE mapSetAll(mapSet(entries, Head(secretList)), Tail(secretList))

\* the entry of key in a Map kept as a list of entries
mapGet(entries, key) ==
    entries[CHOOSE i \in 1..Len(entries) : entries[i].key = key]

mapHas(entries, key) == \E i \in 1..Len(entries) : entries[i].key = key

\* a variant that forgets skippedFromState: a key that env defines is
\* skipped in every round
diffPlaceAlwaysSkips(currentKeys, skippedFromState, secret, env) ==
    IF mapHas(currentKeys, secret.key)
    THEN IF /\ mapGet(currentKeys, secret.key).value = secret.value
            /\ mapGet(currentKeys, secret.key).sourcePath = secret.sourcePath
         THEN "unchanged"
         ELSE "set"
    ELSE IF env[secret.key] # UndefinedValue
    THEN "skipped"
    ELSE "set"

\* the second loop of computeDiff: where the secret of newSecrets goes
diffPlace(currentKeys, skippedFromState, secret, env) ==
    IF mapHas(currentKeys, secret.key)
    THEN IF /\ mapGet(currentKeys, secret.key).value = secret.value
            /\ mapGet(currentKeys, secret.key).sourcePath = secret.sourcePath
         THEN "unchanged"
         ELSE "set"
    ELSE IF env[secret.key] # UndefinedValue /\ secret.key \notin skippedFromState
    THEN "skipped"
    ELSE "set"

\* HookStateManager.computeDiff(currentState, newSecrets, env); newSecrets
\* is the resolved Map in its iteration order
computeDiff(currentState, newSecrets, env) ==
    LET currentKeys == mapSetAll(<<>>, stateSecrets(currentState))
        skippedFromState ==
            {stateSkippedKeys(currentState)[i] :
                i \in 1..Len(stateSkippedKeys(currentState))}
        currentKeyList == [i \in 1..Len(currentKeys) |-> currentKeys[i].key]
        place(secret) == diffPlace(currentKeys, skippedFromState, secret, env)
        keysOf(list) == [i \in 1..Len(list) |-> list[i].key]
    IN  [unset |-> SelectSeq(currentKeyList, LAMBDA key : ~mapHas(newSecrets, key)),
         set |-> SelectSeq(newSecrets, LAMBDA secret : place(secret) = "set"),
         skipped |-> keysOf(SelectSeq(newSecrets,
                                      LAMBDA secret : place(secret) = "skipped")),
         unchanged |-> keysOf(SelectSeq(newSecrets,
                                        LAMBDA secret : place(secret) = "unchanged"))]

\* the skippedKeys loop of applyDiff
RECURSIVE pushMissing(_, _)
pushMissing(skippedKeys, keys) ==
    IF keys = <<>> THEN skippedKeys
    ELSE pushMissing(IF Includes(skippedKeys, Head(keys)) THEN skippedKeys
                     ELSE Append(skippedKeys, Head(keys)),
                     Tail(keys))

\* a variant that keeps the secrets of diff.unset in the state
applyDiffKeepingUnset(currentState, diff, newDir) ==
    HookState(mapSetAll(mapSetAll(<<>>, stateSecrets(currentState)), diff.set),
              newDir,
              pushMissing(stateSkippedKeys(currentState), diff.skipped))

\* HookStateManager.applyDiff(currentState, diff, newDir): the state it saves
\* and returns
applyDiff(currentState, diff, newDir) ==
    LET remaining == SelectSeq(stateSecrets(currentState),
                               LAMBDA secret : ~Includes(diff.unset, secret.key))
        secretsMap == mapSetAll(mapSetAll(<<>>, remaining), diff.set)
    IN  HookState(secretsMap, newDir,
                  pushMissing(stateSkippedKeys(currentState), diff.skipped))

\* core/hook.ts has its own generateShellCommands and escapeShellValue
coreEscapeShellValue(value, shell) ==
    IF shell = "fish"
    THEN <<"'">> \o replaceAll(value, "'", <<"'", "\"", "'", "\"", "'">>) \o <<"'">>
    ELSE LET escaped ==
                 replaceAll(
                   replaceAll(
                     replaceAll(
                       replaceAll(
                         replaceAll(value, "\\", <<"\\", "\\">>),
                         "'", <<"\\", "'">>),
                       "\n", <<"\\", "n">>),
                     "\r", <<"\\", "r">>),
                   "\t", <<"\\", "t">>)
         IN  <<"$", "'">> \o escaped \o <<"'">>

coreUnsetCommand(key, shell) ==
    IF shell = "fish"
    THEN <<"s", "e", "t", " ", "-", "e", " ">> \o key
    ELSE <<"u", "n", "s", "e", "t", " ">> \o key

coreSetCommand(secret, shell) ==
    IF shell = "fish"
    THEN <<"s", "e", "t", " ", "-", "g", "x", " ">> \o secret.key \o <<" ">>
             \o coreEscapeShellValue(secret.value, shell)
    ELSE <<"e", "x", "p", "o", "r", "t", " ">> \o secret.key \o <<"=">>
             \o coreEscapeShellValue(secret.value, shell)

\* a variant that emits the set commands first
coreGenerateShellCommandsSetFirst(diff, shell) ==
    [i \in 1..Len(diff.set) |-> coreSetCommand(diff.set[i], shell)]
        \o [i \in 1..Len(diff.unset) |-> coreUnsetCommand(diff.unset[i], shell)]

coreGenerateShellCommands(diff, shell) ==
    [i \in 1..Len(diff.unset) |-> coreUnsetCommand(diff.unset[i], shell)]
        \o [i \in 1..Len(diff.set) |-> coreSetCommand(diff.set[i], shell)]

(***************************************************************************)
(* The steps of a hook round in the two designs.                           *)
(***************************************************************************)
\* api.ts, hook: the diff against previousKeys and its commands, for the
\* shell of the session
ComputeHookDiff(previousKeyList, newSecrets) ==
    /\ LET diff == computeHookDiff(toKeySet(previousKeyList), newSecrets)
       IN  last' = [op |-> "computeHookDiff", previousKeys |-> previousKeyList,
                    newSecrets |-> newSecrets, diff |-> diff,
                    commands |-> generateShellCommands(diff, session.shell)]
    /\ UNCHANGED <<secrets, trusted, inodes, session, hookState, store, shellEnv>>

\* the texts of formatHookMessage in core/hook.ts
coreMessageText(loaded, unloaded) ==
    IF unloaded > 0 /\ loaded > 0
    THEN <<"u", "n", "l", "o", "a", "d", "e", "d", " ">> \o toDigits(unloaded)
         \o <<",", " ", "l", "o", "a", "d", "e", "d", " ">> \o toDigits(loaded)
    ELSE IF loaded > 0
    THEN <<"l", "o", "a", "d", "e", "d", " ">> \o toDigits(loaded)
         \o <<" ", "s", "e", "c", "r", "e", "t">>
         \o (IF loaded = 1 THEN <<>> ELSE <<"s">>)
    ELSE <<"u", "n", "l", "o", "a", "d", "e", "d", " ">> \o toDigits(unloaded)
         \o <<" ", "s", "e", "c", "r", "e", "t">>
         \o (IF unloaded = 1 THEN <<>> ELSE <<"s">>)

\* a variant that reports the skipped keys alone as well
coreFormatHookMessageCountingSkipped(diff, useColor) ==
    LET loaded == Len(diff.set)
        unloaded == Len(diff.unset)
        skippedCount == Len(diff.skipped)
        dim == IF useColor THEN <<"ESC", "[", "2", "m">> ELSE <<>>
        reset == IF useColor THEN <<"ESC", "[", "0", "m">> ELSE <<>>
    IN  IF loaded = 0 /\ unloaded = 0 /\ skippedCount = 0 THEN UndefinedMessage
        ELSE dim \o <<"b", "u", "r", "r", "o", "w", ":", " ">>
             \o coreMessageText(loaded, unloaded)
             \o (IF skippedCount > 0
                 THEN <<" ", "(">> \o toDigits(skippedCount)
                      \o <<" ", "s", "k", "i", "p", "p", "e", "d", ")">>
                 ELSE <<>>)
             \o reset

\* formatHookMessage of core/hook.ts; "ESC" stands for the escape character
coreFormatHookMessage(diff, useColor) ==
    LET loaded == Len(diff.set)
        unloaded == Len(diff.unset)
        skippedCount == Len(diff.skipped)
        dim == IF useColor THEN <<"ESC", "[", "2", "m">> ELSE <<>>
        reset == IF useColor THEN <<"ESC", "[", "0", "m">> ELSE <<>>
    IN  IF loaded = 0 /\ unloaded = 0 THEN UndefinedMessage
        ELSE dim \o <<"b", "u", "r", "r", "o", "w", ":", " ">>
             \o coreMessageText(loaded, unloaded)
             \o (IF skippedCount > 0
                 THEN <<" ", "(">> \o toDigits(skippedCount)
                      \o <<" ", "s", "k", "i", "p", "p", "e", "d", ")">>
                 ELSE <<>>)
             \o reset

\* core/hook.ts: computeDiff against the state that load() returns, with
\* the commands of the diff for the shell of the session and its message
ComputeDiff(newSecrets, env) ==
    /\ LET diff == computeDiff(hookState, newSecrets, env)
       IN  last' = [op |-> "computeDiff", state |-> hookState,
                    newSecrets |-> newSecrets, env |-> env, diff |-> diff,
                    commands |-> coreGenerateShellCommands(diff, session.shell),
                    message |-> coreFormatHookMessage(diff, session.useColor)]
    /\ UNCHANGED <<secrets, trusted, inodes, session, hookState, store, shellEnv>>

\* core/hook.ts: applyDiff of the diff just computed; the caller hands it
\* the loaded state or undefined; the new state is saved and returned
ApplyDiff(currentState, newDir) ==
    /\ last.op = "computeDiff"
    /\ hookState' = applyDiff(currentState, last.diff, newDir)
    /\ last' = [op |-> "applyDiff", state |-> currentState, diff |-> last.diff,
                newDir |-> newDir, returned |-> hookState']
    /\ UNCHANGED <<secrets, trusted, inodes, session, store, shellEnv>>

\* core/hook.ts: clear() removes the state file
Clear ==
    /\ hookState' = NoHookState
    /\ last' = [op |-> "clear"]
    /\ UNCHANGED <<secrets, trusted, inodes, session, store, shellEnv>>

(***************************************************************************)
(* cli.ts: the _hook-exec command                                          *)
(***************************************************************************)
\* the storage calls a hook call makes; failingCall names the one that
\* throws when it is reached (the database cannot be opened or read), or
\* "none"
FailingCalls == {"none", "getTrustedAncestorPaths", "getAncestorPaths", "getPathSecrets"}

\* client.hook(cwd, {shell}) throws: autoload is on and the failing call
\* is reached, in isTrusted after canonicalize or in resolve once trusted
hookThrows(cwd, canonicalizeThrows, failingCall, trustResult) ==
    /\ session.autoload # "0"
    /\ \/ failingCall = "getTrustedAncestorPaths" /\ ~canonicalizeThrows
       \/ /\ failingCall = "getAncestorPaths"
          /\ trustResult.trusted
       \/ /\ failingCall = "getPathSecrets"
          /\ trustResult.trusted
          /\ getAncestorPaths(canonicalize(cwd)) # {}

\* the line console.error prints in the catch block; the text of the error
\* is the name of the call that failed
hookWarning(failingCall) ==
    <<"b", "u", "r", "r", "o", "w", ":", " ", "w", "a", "r", "n", "i", "n", "g", ":", " ", "f", "a", "i", "l", "e", "d", " ", "t", "o", " ", "r", "e", "s", "o", "l", "v", "e", " ", "s", "e", "c", "r", "e", "t", "s", ":", " ">> \o <<failingCall>>

\* what the action printed and how it ended
ExecResult(shellArg, cwd, canonicalizeThrows, failingCall, stdout, stderr, exit) ==
    [op |-> "_hook-exec", shell |-> shellArg, cwd |-> cwd,
     canonicalizeThrows |-> canonicalizeThrows, failingCall |-> failingCall,
     stdout |-> stdout, stderr |-> stderr, exit |-> exit]

validShells == {"bash", "zsh", "fish"}

\* a variant without the try/catch around client.hook: the error leaves
\* the action and the process fails
HookExecWithoutCatch(shellArg, cwd, canonicalizeThrows, failingCall) ==
    /\ IF shellArg \notin validShells
       THEN last' = ExecResult(shellArg, cwd, canonicalizeThrows, failingCall,
                               <<>>, <<>>, "exit(1)")
       ELSE \E rowOrder \in RowOrders(getTrustedAncestorPaths(canonicalize(cwd))),
              rowsOf \in ScopeRowOrders(cwd) :
               LET trustResult == isTrusted(cwd, canonicalizeThrows, rowOrder)
                   result == hook(cwd, shellArg, <<>>, session.useColor,
                                  trustResult, rowsOf)
               IN  IF hookThrows(cwd, canonicalizeThrows, failingCall, trustResult)
                   THEN last' = ExecResult(shellArg, cwd, canonicalizeThrows,
                                           failingCall, <<>>, <<<<failingCall>>>>,
                                           "uncaught")
                   ELSE last' = ExecResult(shellArg, cwd, canonicalizeThrows,
                                           failingCall, result.commands,
                                           IF result.message # UndefinedMessage
                                           THEN <<result.message>> ELSE <<>>,
                                           "returned")
    /\ UNCHANGED <<secrets, trusted, inodes, session, hookState, store, shellEnv>>

\* burrow _hook-exec <shell> <cwd>: previousKeys is not passed, useColor
\* is left to NO_COLOR
HookExec(shellArg, cwd, canonicalizeThrows, failingCall) ==
    /\ IF shellArg \notin validShells
       THEN last' = ExecResult(shellArg, cwd, canonicalizeThrows, failingCall,
                               <<>>, <<>>, "exit(1)")
       ELSE \E rowOrder \in RowOrders(getTrustedAncestorPaths(canonicalize(cwd))),
              rowsOf \in ScopeRowOrders(cwd) :
               LET trustResult == isTrusted(cwd, canonicalizeThrows, rowOrder)
                   result == hook(cwd, shellArg, <<>>, session.useColor,
                                  trustResult, rowsOf)
               IN  IF hookThrows(cwd, canonicalizeThrows, failingCall, trustResult)
                   THEN last' = ExecResult(shellArg, cwd, canonicalizeThrows,
                                           failingCall, <<>>,
                                           <<hookWarning(failingCall)>>, "returned")
                   ELSE last' = ExecResult(shellArg, cwd, canonicalizeThrows,
                                           failingCall, result.commands,
                                           IF result.message # UndefinedMessage
                                           THEN <<result.message>> ELSE <<>>,
                                           "returned")
    /\ UNCHANGED <<secrets, trusted, inodes, session, hookState, store, shellEnv>>

(***************************************************************************)
(* Specifications.                                                         *)
(***************************************************************************)
\* the root and /a exist, each with its own inode; nothing else does yet
InitInodes ==
    [d \in Dirs |-> IF d = DirRoot THEN 1 ELSE IF d = DirA THEN 2 ELSE 0]

Init ==
    /\ secrets = [pk \in {} |-> Tombstone]
    /\ trusted = [p \in {} |-> 0]
    /\ inodes = InitInodes
    /\ session = [shell |-> "bash", autoload |-> "", useColor |-> TRUE]
    /\ hookState = NoHookState
    /\ store = OpenedStore
    /\ shellEnv = FreshShellEnv
    /\ last = NoCall

NextStore ==
    \/ \E key \in StoreKeys, value \in InputValues, path \in InputPaths :
           Set(key, value, path)
    \/ \E key \in StoreKeys, path \in InputPaths : Block(key, path)
    \/ \E key \in StoreKeys, path \in InputPaths : Remove(key, path)

\* the secret store under set, block and remove with well-formed keys
SpecStore == Init /\ [][NextStore]_vars

\* scopes of the calls that probe the key check
KeyCheckPaths == {DirA, <<"/", "a", "/">>, DirASlashB}

NextKeys ==
    \/ \E key \in InputKeys, value \in InputValues, path \in KeyCheckPaths :
           Set(key, value, path)
    \/ \E key \in InputKeys, path \in KeyCheckPaths : Block(key, path)
    \/ \E key \in InputKeys, path \in KeyCheckPaths : Remove(key, path)

\* set, block and remove called with well-formed and malformed keys
SpecKeys == Init /\ [][NextKeys]_vars

\* directories that the trust scenarios create, remove and trust
TrustDirs == {DirRoot, DirA, DirUpperA, DirUnderscore}

\* paths passed to trust and untrust
TrustInputPaths == TrustDirs \cup {<<"/", "a", "/">>}

\* paths passed to isTrusted: also directories below and beside the trusted
CheckInputPaths == TrustInputPaths \cup {DirASlashB, DirAb}

NextTrust ==
    \/ \E path \in TrustInputPaths : Trust(path)
    \/ \E path \in TrustInputPaths : Untrust(path)
    \/ \E path \in CheckInputPaths, canonicalizeThrows \in BOOLEAN :
           IsTrusted(path, canonicalizeThrows)
    \/ \E dir \in TrustDirs : RemoveDir(dir)
    \/ \E dir \in TrustDirs, ino \in 1..MaxInode : CreateDir(dir, ino)

\* trust records over a filesystem whose directories come and go
SpecTrust == Init /\ [][NextTrust]_vars

\* the hook scenarios: secrets at /a and /a/b, trust on /a, hook calls
\* from /a and /a/b
HookScopes == {DirA, DirASlashB}
HookTrustPaths == {DirA}
HookCwds == {DirA, DirASlashB}
Shells == {"bash", "zsh", "fish"}
KeyOther == <<"B">>

\* previousKeys lists: empty, two keys, a repeated key, and a key that no
\* scope defines
PreviousKeyLists ==
    {<<>>, <<KeyLower, KeyUpper>>, <<KeyUpper, KeyUpper>>, <<KeyOther, KeyLower>>}

\* values of BURROW_AUTOLOAD: unset, "0" and "1"
AutoloadValues == {"", "0", "1"}

NextHook ==
    \/ \E path \in HookScopes : Set(KeyUpper, ValueQuote, path)
    \/ Set(KeyLower, ValuePlain, DirA)
    \/ Block(KeyUpper, DirASlashB)
    \/ \E key \in StoreKeys : Remove(key, DirA)
    \/ \E path \in HookTrustPaths : Trust(path)
    \/ \E path \in HookTrustPaths : Untrust(path)
    \/ \E dir \in HookTrustPaths : RemoveDir(dir)
    \/ \E dir \in HookTrustPaths, ino \in 1..MaxInode : CreateDir(dir, ino)
    \/ \E value \in AutoloadValues : SetAutoload(value)
    \/ \E cwd \in HookCwds, previousKeyList \in PreviousKeyLists,
          canonicalizeThrows \in BOOLEAN :
           Hook(cwd, previousKeyList, canonicalizeThrows)

\* a session of any shell, with or without colour
InitHook ==
    /\ secrets = [pk \in {} |-> Tombstone]
    /\ trusted = [p \in {} |-> 0]
    /\ inodes = InitInodes
    /\ session \in [shell : Shells, autoload : {""}, useColor : BOOLEAN]
    /\ hookState = NoHookState
    /\ store = OpenedStore
    /\ shellEnv = FreshShellEnv
    /\ last = NoCall

\* shell hook calls over a store, trust records and a filesystem that change
SpecHook == InitHook /\ [][NextHook]_vars

\* resolved secrets handed to the diff functions: key A with two values
\* and two sources, key a_
LoadedSecret(key, value, sourcePath) ==
    [key |-> key, value |-> value, sourcePath |-> sourcePath]

SecretA == LoadedSecret(KeyUpper, ValuePlain, DirA)
SecretAOtherValue == LoadedSecret(KeyUpper, ValueQuote, DirA)
SecretAOtherSource == LoadedSecret(KeyUpper, ValuePlain, DirASlashB)
SecretLower == LoadedSecret(KeyLower, ValuePlain, DirA)

NewSecretMaps ==
    {<<>>, <<SecretA>>, <<SecretAOtherValue>>, <<SecretAOtherSource>>,
     <<SecretLower>>, <<SecretA, SecretLower>>, <<SecretLower, SecretAOtherValue>>}

\* environments: A is undefined or has a value, a_ is undefined or is the
\* empty string
EnvValues == {UndefinedValue, <<>>, ValuePlain}
Envs ==
    {env \in [StoreKeys -> EnvValues] :
        env[KeyUpper] # <<>> /\ env[KeyLower] # ValuePlain}

NextHookState ==
    \/ \E previousKeyList \in PreviousKeyLists, newSecrets \in NewSecretMaps :
           ComputeHookDiff(previousKeyList, newSecrets)
    \/ \E newSecrets \in NewSecretMaps, env \in Envs : ComputeDiff(newSecrets, env)
    \/ \E currentState \in {hookState, NoHookState}, newDir \in HookCwds :
           ApplyDiff(currentState, newDir)
    \/ Clear

\* a session of any shell, with or without colour, no hook state file
InitHookState ==
    /\ secrets = [pk \in {} |-> Tombstone]
    /\ trusted = [p \in {} |-> 0]
    /\ inodes = InitInodes
    /\ session \in [shell : Shells, autoload : {""}, useColor : BOOLEAN]
    /\ hookState = NoHookState
    /\ store = OpenedStore
    /\ shellEnv = FreshShellEnv
    /\ last = NoCall

\* the diff functions of both hook designs and the persisted hook state
SpecHookState == InitHookState /\ [][NextHookState]_vars

\* the shell argument of _hook-exec: the shell of the session, or a word
\* that names no supported shell
ShellArgs == {"sh"}

NextHookExec ==
    \/ \E key \in StoreKeys : Set(key, ValueQuote, DirA)
    \/ \E key \in StoreKeys : Remove(key, DirA)
    \/ \E path \in HookTrustPaths : Trust(path)
    \/ \E path \in HookTrustPaths : Untrust(path)
    \/ \E dir \in HookTrustPaths : RemoveDir(dir)
    \/ \E dir \in HookTrustPaths, ino \in 1..MaxInode : CreateDir(dir, ino)
    \/ \E value \in AutoloadValues : SetAutoload(value)
    \/ \E shellArg \in {session.shell} \cup ShellArgs, cwd \in HookCwds,
          canonicalizeThrows \in BOOLEAN, failingCall \in FailingCalls :
           HookExec(shellArg, cwd, canonicalizeThrows, failingCall)

\* the hook command of the CLI over a store, trust records and a filesystem
\* that change, with storage calls that may fail
SpecHookExec == InitHook /\ [][NextHookExec]_vars

(***************************************************************************)
(* Resolution claims (SpecStore).                                          *)
(***************************************************************************)
\* the scopes at or above D that hold an entry, value or tombstone, for k
DefiningScopes(D, k) ==
    {P \in Dirs : isAncestorOf(P, D) /\ <<P, k>> \in DOMAIN secrets}

\* the deepest of a non-empty set of scopes that lie on one ancestor chain
Deepest(S) == CHOOSE P \in S : \A Q \in S : Len(Q) <= Len(P)

\* what the nearest definition at or above D says about k
NearestDefinition(D, k) ==
    LET defs == DefiningScopes(D, k)
    IN  IF defs = {} \/ secrets[<<Deepest(defs), k>>].isNull
        THEN Undefined
        ELSE [key |-> k, value |-> secrets[<<Deepest(defs), k>>].value,
              sourcePath |-> Deepest(defs)]

\* C1: for every store, directory D and key k, resolve(D) holds k iff the
\* deepest scope at or above D with an entry for k holds a real value, and
\* then with that value and that scope as sourcePath.
C1_DeepestAncestorDecides ==
    \A D \in Dirs, k \in StoreKeys : get(k, D) = NearestDefinition(D, k)

\* the scopes on the chain from S down to D that hold a real value for k
ReactivatingScopes(S, D, k) ==
    {P \in Dirs : /\ isAncestorOf(S, P) /\ isAncestorOf(P, D)
                  /\ <<P, k>> \in DOMAIN secrets
                  /\ ~secrets[<<P, k>>].isNull}

\* C2: with a tombstone for k at S, resolve(D) excludes k for every D at or
\* below S unless a scope on the chain from S to D holds a real value for
\* k, and then resolve(D)[k] is the value of the deepest such scope.
C2_TombstoneLaw ==
    \A S \in Dirs, k \in StoreKeys :
        (<<S, k>> \in DOMAIN secrets /\ secrets[<<S, k>>].isNull) =>
            \A D \in {E \in Dirs : isAncestorOf(S, E)} :
                LET real == ReactivatingScopes(S, D, k)
                IN  IF real = {} THEN k \notin DOMAIN resolve(D)
                    ELSE /\ k \in DOMAIN resolve(D)
                         /\ resolve(D)[k].value = secrets[<<Deepest(real), k>>].value
                         /\ resolve(D)[k].sourcePath = Deepest(real)

\* C3: on POSIX getAncestorPaths(C) returns a stored scope P iff P = C, or
\* C starts with P followed by '/', or P is '/'; and no resolved value has a
\* sourcePath that is not an ancestor-or-self of C.
C3_SegmentExactLookup ==
    \A C \in Dirs :
        /\ \A P \in getAllPaths :
               P \in getAncestorPaths(C) <=>
                   (P = C \/ StartsWith(C, Append(P, "/")) \/ P = <<"/">>)
        /\ \A k \in DOMAIN resolve(C) : isAncestorOf(resolve(C)[k].sourcePath, C)

\* C8: remove(K, P) returns false and changes nothing when (P, K) has no
\* entry; otherwise it returns true and deletes exactly that entry, and then
\* get(K, D) for D at or below P is the nearest remaining ancestor definition.
C8_RemoveFallsBack ==
    [][\A K \in StoreKeys, P \in Dirs :
          (last'.op = "remove" /\ last'.key = K /\ canonicalize(last'.path) = P) =>
              IF <<P, K>> \notin DOMAIN secrets
              THEN last'.ret = "false" /\ secrets' = secrets
              ELSE /\ last'.ret = "true"
                   /\ DOMAIN secrets' = DOMAIN secrets \ {<<P, K>>}
                   /\ \A pk \in DOMAIN secrets' : secrets'[pk] = secrets[pk]
                   /\ \A D \in {E \in Dirs : isAncestorOf(P, E)} :
                          get(K, D)' = NearestDefinition(D, K)'
    ]_vars

\* C9: after set(K, v, P), get(K, cwd = P) returns v with sourcePath
\* canonical(P) whatever the store held before, and a set or block at
\* (P, K) leaves exactly one entry there without touching another one.
C9_RoundTrip ==
    [][\A K \in StoreKeys, v \in InputValues, P \in InputPaths :
          /\ (last'.op \in {"set", "block"} /\ last'.key = K /\ last'.path = P) =>
                 /\ DOMAIN secrets' = DOMAIN secrets \cup {<<canonicalize(P), K>>}
                 /\ \A pk \in DOMAIN secrets \ {<<canonicalize(P), K>>} :
                        secrets'[pk] = secrets[pk]
          /\ (last'.op = "set" /\ last'.key = K /\ last'.path = P /\ last'.value = v) =>
                 get(K, P)' = [key |-> K, value |-> v, sourcePath |-> canonicalize(P)]
    ]_vars

(***************************************************************************)
(* Hook claims (SpecHook).                                                 *)
(***************************************************************************)
\* the last call was hook, and isTrusted(cwd) is not trusted in this state
HookOutsideTrust ==
    /\ last.op = "hook"
    /\ \A rowOrder \in RowOrders(getTrustedAncestorPaths(canonicalize(last.cwd))) :
           ~isTrusted(last.cwd, last.threw, rowOrder).trusted

\* the last call was hook, with BURROW_AUTOLOAD set to "0"
HookAutoloadDisabled ==
    last.op = "hook" /\ session.autoload = "0"

KeysOf(keys) == {keys[i] : i \in 1..Len(keys)}

\* the commands that unset key: "unset K" for bash and zsh, "set -e K" for fish
UnsetCommandsFor(key) ==
    {<<"u", "n", "s", "e", "t", " ">> \o key,
     <<"s", "e", "t", " ", "-", "e", " ">> \o key}

\* cmd begins with "export " or with "set -gx "
IsLoadCommand(cmd) ==
    \/ StartsWith(cmd, <<"e", "x", "p", "o", "r", "t", " ">>)
    \/ StartsWith(cmd, <<"s", "e", "t", " ", "-", "g", "x", " ">>)

\* the parts of C4 that do not depend on how "unloadedKeys equal to
\* previousKeys" is read
HookLoadsNothing ==
    LET result == last.result
        reasons == {"not-trusted", "inode-mismatch", "path-not-found",
                    "autoload-disabled"}
    IN  /\ (HookOutsideTrust \/ HookAutoloadDisabled) =>
               /\ result.trusted = FALSE
               /\ result.secrets = <<>>
               /\ result.notTrustedReason \in reasons
               /\ \A i \in 1..Len(result.commands) : ~IsLoadCommand(result.commands[i])
               /\ \A key \in KeysOf(last.previousKeys) :
                      Cardinality({i \in 1..Len(result.commands) :
                                      result.commands[i] \in UnsetCommandsFor(key)}) = 1
               /\ Len(result.commands) = Cardinality(KeysOf(last.previousKeys))
        /\ HookAutoloadDisabled =>
               /\ result.notTrustedReason = "autoload-disabled"
               /\ ~last.trustChecked

\* C4 as stated: a hook call outside a trusted directory, or with
\* BURROW_AUTOLOAD "0", loads nothing, and its unloadedKeys is the
\* previousKeys list it was given.
C4_UnloadedKeysArePreviousKeys ==
    /\ HookLoadsNothing
    /\ (HookOutsideTrust \/ HookAutoloadDisabled) =>
           last.result.unloadedKeys = last.previousKeys

\* the index of the first occurrence of key in keys
FirstIndex(keys, key) ==
    CHOOSE i \in 1..Len(keys) :
        keys[i] = key /\ \A j \in 1..(i - 1) : keys[j] # key

\* C4 amended: a hook call outside a trusted directory, or with
\* BURROW_AUTOLOAD "0", has trusted = false, no secrets, no export or
\* set -gx command, exactly one unset command per previous key, and
\* unloadedKeys holds every distinct key of previousKeys once, in the order
\* of first occurrence; with BURROW_AUTOLOAD "0" the reason is
\* autoload-disabled and isTrusted is not called.
C4_HookNeverLoadsOutsideTrust ==
    /\ HookLoadsNothing
    /\ (HookOutsideTrust \/ HookAutoloadDisabled) =>
           LET unloaded == last.result.unloadedKeys
           IN  /\ KeysOf(unloaded) = KeysOf(last.previousKeys)
               /\ Len(unloaded) = Cardinality(KeysOf(unloaded))
               /\ \A i, j \in 1..Len(unloaded) :
                      i < j => FirstIndex(last.previousKeys, unloaded[i])
                                   < FirstIndex(last.previousKeys, unloaded[j])

\* hook was called with previous keys from a directory that holds a secret
\* but whose trust record is stale, and it unset the previous keys
C4_Witness ==
    /\ HookOutsideTrust
    /\ session.autoload # "0"
    /\ last.result.notTrustedReason = "inode-mismatch"
    /\ resolve(last.cwd) # EmptyMap
    /\ Len(last.result.unloadedKeys) = 2

(***************************************************************************)
(* Trust claims (SpecTrust).                                               *)
(***************************************************************************)
\* the record of T is valid: T exists and has the inode that was recorded
ValidRecord(T) ==
    T \in DOMAIN trusted /\ inodes[T] # 0 /\ inodes[T] = trusted[T]

\* the record of P is stale by replacement: P exists under another inode
ReplacedSinceTrust(P) ==
    P \in DOMAIN trusted /\ inodes[P] # 0 /\ inodes[P] # trusted[P]

\* isTrusted(P) was the last call, and canonicalization did not fail
CheckedTrust(P) ==
    last.op = "isTrusted" /\ ~last.threw /\ canonicalize(last.path) = P

\* C5 as stated: after trust(P) and a replacement of P under another inode,
\* isTrusted(P) reports trusted = false with reason inode-mismatch.
C5_StaleTrustIsMismatch ==
    \A P \in Dirs :
        (CheckedTrust(P) /\ ReplacedSinceTrust(P)) =>
            last.check = TrustCheck(FALSE, <<>>, "inode-mismatch")

\* C5 amended: after trust(P) and a replacement of P under another inode,
\* isTrusted(P) never reports trust through the record of P, and it
\* reports inode-mismatch when no other trust record is still valid.
C5_StaleRecordNeverTrusts ==
    \A P \in Dirs :
        (CheckedTrust(P) /\ ReplacedSinceTrust(P)) =>
            /\ ~(last.check.trusted /\ last.check.trustedPath = P)
            /\ (\A Q \in DOMAIN trusted \ {P} : ~ValidRecord(Q)) =>
                   last.check = TrustCheck(FALSE, <<>>, "inode-mismatch")

\* isTrusted(P) reported inode-mismatch for a replaced, once trusted P
C5_Witness ==
    \E P \in Dirs :
        /\ CheckedTrust(P)
        /\ ReplacedSinceTrust(P)
        /\ last.check.reason = "inode-mismatch"

\* the valid trust records on ancestors-or-self of C
ValidAncestorRecords(C) ==
    {T \in DOMAIN trusted : isAncestorOf(T, C) /\ ValidRecord(T)}

\* C6: isTrusted(D) returns trusted with the deepest record on an
\* ancestor-or-self of D whose recorded inode is the current one, skipping
\* stale and missing ones; without such a record it is not trusted.
C6_DeepestValidTrustWins ==
    \A D \in Dirs :
        CheckedTrust(D) =>
            IF ValidAncestorRecords(D) = {}
            THEN ~last.check.trusted
            ELSE /\ last.check.trusted
                 /\ last.check.trustedPath = Deepest(ValidAncestorRecords(D))

\* C7: on POSIX isTrusted(C) is trusted through T only if T is C or an
\* ancestor of C by whole, case-sensitive segments; a directory with no
\* trust record on itself or an ancestor gets reason not-trusted.
C7_TrustDoesNotLeak ==
    \A C \in Dirs :
        CheckedTrust(C) =>
            /\ last.check.trusted => isAncestorOf(last.check.trustedPath, C)
            /\ (\A T \in DOMAIN trusted : ~isAncestorOf(T, C)) =>
                   last.check = TrustCheck(FALSE, <<>>, "not-trusted")

(***************************************************************************)
(* Key validation claims (SpecKeys).                                       *)
(***************************************************************************)
\* keys outside ^[A-Za-z_][A-Za-z0-9_]*$ and keys inside it
MalformedKeys == {KeyDigitFirst, KeyDash, KeyEmpty}
WellFormedKeys == {KeyUpper, KeyLower}

ResolvedEntry(resolved, key) ==
    IF key \in DOMAIN resolved THEN resolved[key] ELSE Undefined

SecretKeys(secretList) == {secretList[i].key : i \in 1..Len(secretList)}

NoRepeats(seq) == Len(seq) = Cardinality({seq[i] : i \in 1..Len(seq)})

\* C12: in both hook designs the unset list holds exactly the previously
\* loaded keys that the newly resolved secrets do not contain, each once.
C12_UnsetIsPreviousMinusNew ==
    /\ last.op = "computeHookDiff" =>
           /\ KeysOf(last.diff.toUnset)
                  = KeysOf(last.previousKeys) \ SecretKeys(last.newSecrets)
           /\ NoRepeats(last.diff.toUnset)
    /\ last.op = "computeDiff" =>
           /\ KeysOf(last.diff.unset)
                  = SecretKeys(stateSecrets(last.state)) \ SecretKeys(last.newSecrets)
           /\ NoRepeats(last.diff.unset)

\* previous {A}, new {a_}: A is unset and a_ is set, in the design of api.ts
C12_Witness ==
    /\ last.op = "computeHookDiff"
    /\ KeysOf(last.previousKeys) = {KeyUpper}
    /\ last.newSecrets = <<SecretLower>>
    /\ last.diff.toUnset = <<KeyUpper>>
    /\ last.diff.toSet = <<SecretLower>>

\* the secret that state holds for key, when it holds one
HeldSecret(state, key) ==
    CHOOSE secret \in {stateSecrets(state)[i] : i \in 1..Len(stateSecrets(state))} :
        secret.key = key

\* C13: computeDiff puts every key of newSecrets in exactly one of
\* unchanged, set and skipped: unchanged iff the state holds the key with
\* the same value and source; set iff the state holds it with another value
\* or source, or does not hold it and env does not define it or it is in
\* state.skippedKeys; skipped iff the state does not hold it, env defines it
\* and it is not in state.skippedKeys.
C13_DiffPartition ==
    last.op = "computeDiff" =>
        LET diff == last.diff
            setKeys == [i \in 1..Len(diff.set) |-> diff.set[i].key]
            all == diff.unchanged \o setKeys \o diff.skipped
        IN  /\ KeysOf(all) = SecretKeys(last.newSecrets)
            /\ NoRepeats(all)
            /\ \A i \in 1..Len(last.newSecrets) :
                   LET secret == last.newSecrets[i]
                       key == secret.key
                       held == key \in SecretKeys(stateSecrets(last.state))
                       same == /\ HeldSecret(last.state, key).value = secret.value
                               /\ HeldSecret(last.state, key).sourcePath
                                      = secret.sourcePath
                       defined == last.env[key] # UndefinedValue
                       flagged == key \in KeysOf(stateSkippedKeys(last.state))
                   IN  /\ key \in KeysOf(diff.unchanged) <=> (held /\ same)
                       /\ key \in KeysOf(setKeys)
                              <=> \/ held /\ ~same
                                  \/ ~held /\ (~defined \/ flagged)
                       /\ key \in KeysOf(diff.skipped)
                              <=> (~held /\ defined /\ ~flagged)
                       /\ key \in KeysOf(setKeys) =>
                              \E j \in 1..Len(diff.set) :
                                  diff.set[j] = LoadedSecret(key, secret.value,
                                                             secret.sourcePath)

\* one diff with a skipped key and with a key that is set although env
\* defines it, because an earlier round flagged it as skipped
C13_Witness ==
    /\ last.op = "computeDiff"
    /\ last.diff.skipped # <<>>
    /\ \E i \in 1..Len(last.diff.set) :
           /\ last.env[last.diff.set[i].key] # UndefinedValue
           /\ last.diff.set[i].key \in KeysOf(stateSkippedKeys(last.state))

\* the command that unsets key and the start of the command that sets key
ExpectedUnset(key, shell) ==
    IF shell = "fish" THEN <<"s", "e", "t", " ", "-", "e", " ">> \o key
    ELSE <<"u", "n", "s", "e", "t", " ">> \o key

ExpectedSetStart(key, shell) ==
    IF shell = "fish"
    THEN <<"s", "e", "t", " ", "-", "g", "x", " ">> \o key \o <<" ">>
    ELSE <<"e", "x", "p", "o", "r", "t", " ">> \o key \o <<"=">>

\* commands is one unset command per key of unsetKeys, in order, followed
\* by one set command per secret of setSecrets, in order, and nothing else
UnsetsThenSets(commands, unsetKeys, setSecrets, shell) ==
    /\ Len(commands) = Len(unsetKeys) + Len(setSecrets)
    /\ \A i \in 1..Len(unsetKeys) : commands[i] = ExpectedUnset(unsetKeys[i], shell)
    /\ \A j \in 1..Len(setSecrets) :
           StartsWith(commands[Len(unsetKeys) + j],
                      ExpectedSetStart(setSecrets[j].key, shell))

\* C14: generateShellCommands emits one command per unset key followed by
\* one command per set secret, every unset command before every set
\* command, and no command for a skipped or unchanged key; in both designs.
C14_UnsetBeforeSet ==
    /\ last.op = "computeHookDiff" =>
           UnsetsThenSets(last.commands, last.diff.toUnset, last.diff.toSet,
                          session.shell)
    /\ last.op = "computeDiff" =>
           UnsetsThenSets(last.commands, last.diff.unset, last.diff.set,
                          session.shell)

\* a fish session whose diff unsets one key, sets another and leaves one
\* command each
C14_Witness ==
    /\ last.op = "computeDiff"
    /\ session.shell = "fish"
    /\ last.diff.unset = <<KeyUpper>>
    /\ last.diff.set = <<SecretLower>>
    /\ Len(last.commands) = 2

\* C15: applyDiff saves and returns a state whose secrets are those of the
\* state it was given without the keys of diff.unset, overridden or extended
\* by diff.set with one entry per key, whose lastDir is the directory given,
\* and whose skippedKeys are those of the state followed by the keys of
\* diff.skipped it did not hold yet; no key of skippedKeys is lost.
C15_ApplyDiffState ==
    last.op = "applyDiff" =>
        LET before == stateSecrets(last.state)
            diff == last.diff
            after == last.returned
            kept == SecretKeys(before) \ KeysOf(diff.unset)
        IN  /\ hookState = after
            /\ after.exists
            /\ after.lastDir = last.newDir
            /\ SecretKeys(after.secrets) = kept \cup SecretKeys(diff.set)
            /\ Len(after.secrets) = Cardinality(SecretKeys(after.secrets))
            /\ \A i \in 1..Len(after.secrets) :
                   LET secret == after.secrets[i]
                   IN  IF secret.key \in SecretKeys(diff.set)
                       THEN \E j \in 1..Len(diff.set) : diff.set[j] = secret
                       ELSE secret = HeldSecret(last.state, secret.key)
            /\ KeysOf(after.skippedKeys)
                   = KeysOf(stateSkippedKeys(last.state)) \cup KeysOf(diff.skipped)
            /\ NoRepeats(after.skippedKeys)
            /\ SubSeq(after.skippedKeys, 1, Len(stateSkippedKeys(last.state)))
                   = stateSkippedKeys(last.state)

\* applyDiff on a state that had skipped a_ before: a_ is now set, A is
\* skipped and joins skippedKeys
C15_Witness ==
    /\ last.op = "applyDiff"
    /\ last.state.exists
    /\ last.state.skippedKeys = <<KeyLower>>
    /\ last.returned.skippedKeys = <<KeyLower, KeyUpper>>
    /\ SecretKeys(last.returned.secrets) = {KeyLower}

(***************************************************************************)
(* Hook command claims (SpecHookExec).                                     *)
(***************************************************************************)
\* the last call was _hook-exec with a supported shell, and client.hook
\* raised an error: a storage call that the hook reaches failed
HookRaised ==
    /\ last.op = "_hook-exec"
    /\ last.shell \in {"bash", "zsh", "fish"}
    /\ last.failingCall # "none"
    /\ \A rowOrder \in RowOrders(getTrustedAncestorPaths(canonicalize(last.cwd))) :
           hookThrows(last.cwd, last.canonicalizeThrows, last.failingCall,
                      isTrusted(last.cwd, last.canonicalizeThrows, rowOrder))

\* C16: when client.hook raises an error during _hook-exec, no command is
\* written to stdout, one warning line is written to stderr, and the
\* handler returns without a failing exit.
C16_HookFailureIsSilent ==
    HookRaised =>
        /\ last.stdout = <<>>
        /\ Len(last.stderr) = 1
        /\ StartsWith(last.stderr[1],
                      <<"b", "u", "r", "r", "o", "w", ":", " ",
                        "w", "a", "r", "n", "i", "n", "g", ":">>)
        /\ last.exit = "returned"

\* the read of the secrets failed in a trusted directory that has secrets
\* to load
C16_Witness ==
    /\ HookRaised
    /\ last.failingCall = "getPathSecrets"
    /\ resolve(last.cwd) # EmptyMap
    /\ last.stdout = <<>>

(***************************************************************************)
(* Trust result claims (SpecTrust).                                        *)
(***************************************************************************)
\* the trust records on C or on an ancestor of C
AncestorRecords(C) == {T \in DOMAIN trusted : isAncestorOf(T, C)}

\* C17: isTrusted returns reason not-trusted iff no trust record lies on an
\* ancestor-or-self of the canonical path, and reason inode-mismatch iff
\* such records exist and each of them is stale or names a missing path.
C17_FailureReasons ==
    \A C \in Dirs :
        CheckedTrust(C) =>
            /\ last.check = TrustCheck(FALSE, <<>>, "not-trusted")
                   <=> AncestorRecords(C) = {}
            /\ last.check = TrustCheck(FALSE, <<>>, "inode-mismatch")
                   <=> /\ AncestorRecords(C) # {}
                       /\ \A T \in AncestorRecords(C) : ~ValidRecord(T)

\* C18: isTrusted(path) for a path that is missing from the filesystem
\* returns reason path-not-found, and so does every call whose
\* canonicalization fails.
C18_MissingPathIsNotFound ==
    \A P \in Dirs :
        (last.op = "isTrusted" /\ canonicalize(last.path) = P) =>
            /\ inodes[P] = 0 =>
                   last.check = TrustCheck(FALSE, <<>>, "path-not-found")
            /\ last.threw =>
                   last.check = TrustCheck(FALSE, <<>>, "path-not-found")

\* C19: trust(P) leaves one record for canonical P that holds the current
\* inode and touches no other record; untrust(P) returns true iff a record
\* for exactly canonical P existed and removes only that record, so that a
\* second untrust(P) returns false; untrust of a path that has no record of
\* its own returns false and leaves every isTrusted result as it was.
C19_RecordsKeyedByCanonicalPath ==
    [][\A P \in Dirs :
          /\ (last'.op = "trust" /\ last'.ret = "ok" /\ canonicalize(last'.path) = P) =>
                 /\ DOMAIN trusted' = DOMAIN trusted \cup {P}
                 /\ trusted'[P] = inodes[P]
                 /\ \A T \in DOMAIN trusted \ {P} : trusted'[T] = trusted[T]
          /\ (last'.op = "untrust" /\ canonicalize(last'.path) = P) =>
                 /\ last'.ret = "true" <=> P \in DOMAIN trusted
                 /\ last'.ret \in {"true", "false"}
                 /\ DOMAIN trusted' = DOMAIN trusted \ {P}
                 /\ \A T \in DOMAIN trusted' : trusted'[T] = trusted[T]
                 /\ last'.ret = "false" =>
                        \A Q \in Dirs :
                            getTrustedAncestorPaths(Q)' = getTrustedAncestorPaths(Q)
    ]_vars

\* untrust of /a returned false while /a is trusted through the record of /
C19_Witness ==
    /\ last.op = "untrust"
    /\ last.ret = "false"
    /\ canonicalize(last.path) = DirA
    /\ DirA \notin DOMAIN trusted
    /\ ValidRecord(DirRoot)
    /\ \A rowOrder \in RowOrders(getTrustedAncestorPaths(DirA)) :
           isTrusted(DirA, FALSE, rowOrder) = TrustCheck(TRUE, DirRoot, "")

(***************************************************************************)
(* The Windows branches of core/path.ts and storage/index.ts.              *)
(***************************************************************************)
winSep == "\\"

\* String.prototype.toLowerCase over the letters of the model's paths
toLowerCase(s) == [i \in 1..Len(s) |-> ToLower(s[i])]

\* isAncestorOf when isWindows() is true
isAncestorOfWindows(ancestorPath, descendantPath) ==
    IF ancestorPath = descendantPath THEN TRUE
    ELSE LET ancestorWithSep ==
                 IF ancestorPath[Len(ancestorPath)] = winSep
                 THEN ancestorPath
                 ELSE Append(ancestorPath, winSep)
         IN  StartsWith(toLowerCase(descendantPath), toLowerCase(ancestorWithSep))

\* WHERE ? = path OR ? LIKE path || '\' || '%'
\*    OR (length(path) = 3 AND path LIKE '_:\' AND ? LIKE path || '%')
AncestorWhereWindows(canonicalPath, path) ==
    \/ canonicalPath = path
    \/ Like(canonicalPath, path \o <<winSep, "%">>)
    \/ /\ Len(path) = 3
       /\ Like(path, <<"_", ":", winSep>>)
       /\ Like(canonicalPath, path \o <<"%">>)

getAncestorPathsWindows(canonicalPath) ==
    {path \in getAllPaths : AncestorWhereWindows(canonicalPath, path)}

getTrustedAncestorPathsWindows(canonicalPath) ==
    {path \in DOMAIN trusted : AncestorWhereWindows(canonicalPath, path)}

\* the paths that hold records: C:\U and C:\U\a stand for C:\Users and
\* C:\Users\test, next to the drive roots C:\ and D:\ and D:\U on the other
\* drive
WinStoredPaths ==
    {<<"C", ":", "\\", "U">>,
     <<"C", ":", "\\", "U", "\\", "a">>,
     <<"C", ":", "\\">>,
     <<"D", ":", "\\">>,
     <<"D", ":", "\\", "U">>}

\* the targets of the lookups: the stored spellings, their spellings in
\* lower case, and C:\U\ab, which stands for C:\Users\testing
WinTargets ==
    {<<"C", ":", "\\", "U">>,
     <<"c", ":", "\\", "u">>,
     <<"C", ":", "\\", "U", "\\", "a">>,
     <<"c", ":", "\\", "u", "\\", "a">>,
     <<"C", ":", "\\", "U", "\\", "a", "b">>,
     <<"C", ":", "\\">>,
     <<"c", ":", "\\">>,
     <<"D", ":", "\\", "U">>,
     <<"d", ":", "\\", "u", "\\", "a">>}

\* a secret is stored at a Windows path
WinSetSecret(canonicalPath) ==
    /\ \/ <<canonicalPath, KeyUpper>> \in DOMAIN secrets
       \/ Cardinality(DOMAIN secrets) < MaxEntries
    /\ secrets' = setSecret(secrets, canonicalPath, KeyUpper, Entry(ValuePlain))
    /\ last' = [op |-> "setSecret", path |-> canonicalPath]
    /\ UNCHANGED <<trusted, inodes, session, hookState, store, shellEnv>>

\* a trust record is stored for a Windows path
WinAddTrustedPath(canonicalPath, inode) ==
    /\ \/ canonicalPath \in DOMAIN trusted
       \/ Cardinality(DOMAIN trusted) < MaxTrusted
    /\ trusted' = addTrustedPath(trusted, canonicalPath, inode)
    /\ last' = [op |-> "addTrustedPath", path |-> canonicalPath]
    /\ UNCHANGED <<secrets, inodes, session, hookState, store, shellEnv>>

\* the three ancestry comparisons for one target: the scope lookup, the
\* trust lookup, and isAncestorOf against every stored path
WinLookup(canonicalPath) ==
    /\ last' = [op |-> "lookup", path |-> canonicalPath,
                scopes |-> getAncestorPathsWindows(canonicalPath),
                trustedRows |-> getTrustedAncestorPathsWindows(canonicalPath),
                ancestors |-> {path \in getAllPaths \cup DOMAIN trusted :
                                  isAncestorOfWindows(path, canonicalPath)}]
    /\ UNCHANGED <<secrets, trusted, inodes, session, hookState, store, shellEnv>>

NextWindows ==
    \/ \E path \in WinStoredPaths : WinSetSecret(path)
    \/ \E path \in WinStoredPaths : WinAddTrustedPath(path, 1)
    \/ \E path \in WinTargets : WinLookup(path)

\* records at Windows paths and lookups from Windows targets
SpecWindows == Init /\ [][NextWindows]_vars

(***************************************************************************)
(* Windows ancestry claims (SpecWindows).                                  *)
(***************************************************************************)
\* the segments of a Windows path in lower case: <<"c:", "users", "test">>
\* for C:\Users\test, <<"c:">> for the drive root C:\
RECURSIVE WinSegmentsFrom(_, _, _)
WinSegmentsFrom(path, i, current) ==
    IF i > Len(path)
    THEN IF current = <<>> THEN <<>> ELSE <<current>>
    ELSE IF path[i] = winSep
         THEN <<current>> \o WinSegmentsFrom(path, i + 1, <<>>)
    ELSE WinSegmentsFrom(path, i + 1, Append(current, ToLower(path[i])))

WinSegments(path) == WinSegmentsFrom(path, 1, <<>>)

\* P is C or an ancestor of C by whole segments, letter case ignored
WinAncestorOrSelf(P, C) ==
    /\ Len(WinSegments(P)) <= Len(WinSegments(C))
    /\ SubSeq(WinSegments(C), 1, Len(WinSegments(P))) = WinSegments(P)

\* C20: on Windows the scope lookup, the trust lookup and isAncestorOf match
\* a record at P for a target C exactly when P is C or an ancestor of C by
\* whole segments with letter case ignored: C:\Users matches c:\users\test
\* and c:\users, never a path on another drive or C:\Users\testing for
\* C:\Users\test, and a drive root only the targets on its drive.
C20_WindowsAncestryIgnoresCase ==
    last.op = "lookup" =>
        /\ \A P \in getAllPaths :
               P \in last.scopes <=> WinAncestorOrSelf(P, last.path)
        /\ \A P \in DOMAIN trusted :
               P \in last.trustedRows <=> WinAncestorOrSelf(P, last.path)
        /\ \A P \in getAllPaths \cup DOMAIN trusted :
               P \in last.ancestors <=> WinAncestorOrSelf(P, last.path)

(***************************************************************************)
(* core/path.ts: getAncestors.                                             *)
(***************************************************************************)
RECURSIVE lastIndexOfWinSep(_, _)
lastIndexOfWinSep(path, i) ==
    IF i = 0 THEN 0
    ELSE IF path[i] = winSep THEN i
    ELSE lastIndexOfWinSep(path, i - 1)

\* path.match(/^[A-Z]:\\?$/i)
isDriveRoot(path) ==
    /\ Len(path) \in {2, 3}
    /\ path[1] \in UpperLetters \cup LowerLetters
    /\ path[2] = ":"
    /\ Len(path) = 3 => path[3] = winSep

\* getParentPath when isWindows() is true
getParentPathWindows(path) ==
    IF isDriveRoot(path) THEN path
    ELSE LET lastSep == lastIndexOfWinSep(path, Len(path))
         IN  IF lastSep <= 3
             THEN SubSeq(path, 1, IF Len(path) < 3 THEN Len(path) ELSE 3)
             ELSE SubSeq(path, 1, lastSep - 1)

\* Array.prototype.reverse
reverse(s) == [i \in 1..Len(s) |-> s[Len(s) + 1 - i]]

\* getAncestors is entered: current = canonicalPath, ancestors = []
GetAncestors(windows, canonicalPath) ==
    /\ last.op = "getAncestors" => last.pc = "done"
    /\ last' = [op |-> "getAncestors", windows |-> windows,
                path |-> canonicalPath, pc |-> "loop",
                current |-> canonicalPath, ancestors |-> <<>>]
    /\ UNCHANGED <<secrets, trusted, inodes, session, hookState, store, shellEnv>>

\* one round of the while (true) loop; on the break the list is reversed
\* and returned
GetAncestorsLoop ==
    /\ last.op = "getAncestors"
    /\ last.pc = "loop"
    /\ LET pushed == Append(last.ancestors, last.current)
           parent == IF last.windows THEN getParentPathWindows(last.current)
                     ELSE getParentPath(last.current)
       IN  last' = IF parent = last.current
                   THEN [last EXCEPT !.ancestors = reverse(pushed), !.pc = "done"]
                   ELSE [last EXCEPT !.ancestors = pushed, !.current = parent]
    /\ UNCHANGED <<secrets, trusted, inodes, session, hookState, store, shellEnv>>

\* canonical absolute paths of the two platforms
PosixCanonicalPaths ==
    {<<"/">>, <<"/", "a">>, <<"/", "a", "b">>, <<"/", "a", "/", "b">>,
     <<"/", "a", "/", "b", "/", "a">>, <<"/", "a", "b", "/", "a", "/", "b">>}
WindowsCanonicalPaths ==
    {<<"C", ":", "\\">>, <<"D", ":", "\\">>, <<"C", ":", "\\", "U">>,
     <<"C", ":", "\\", "U", "\\", "a">>, <<"C", ":", "\\", "U", "a", "\\", "a">>,
     <<"D", ":", "\\", "a", "\\", "b", "\\", "a">>}

\* other arguments: empty, relative, with a trailing or a doubled separator,
\* a drive without a separator
PosixOtherPaths ==
    {<<>>, <<"a">>, <<"a", "b">>, <<"a", "/", "b">>, <<"/", "a", "/">>,
     <<"/", "/">>, <<"/", "a", "/", "/", "b">>}
WindowsOtherPaths ==
    {<<>>, <<"a">>, <<"a", "b", "a", "b">>, <<"a", "\\", "b">>, <<"C", ":">>,
     <<"c", ":", "\\", "u">>, <<"C", ":", "U">>, <<"C", ":", "\\", "U", "\\">>,
     <<"\\", "\\", "a", "\\", "b">>, <<"/", "a">>}

\* an isAncestorOf call on POSIX and its result
IsAncestorOf(ancestorPath, descendantPath) ==
    /\ last.op = "getAncestors" => last.pc = "done"
    /\ last' = [op |-> "isAncestorOf", ancestorPath |-> ancestorPath,
                descendantPath |-> descendantPath,
                result |-> isAncestorOf(ancestorPath, descendantPath)]
    /\ UNCHANGED <<secrets, trusted, inodes, session, hookState, store, shellEnv>>

\* the arguments of isAncestorOf: absolute paths, among them siblings
\* (/a and /b), partial-segment pairs (/a and /ab), a path with a trailing
\* separator, and one relative path
AncestryPaths ==
    PosixCanonicalPaths \cup {<<"/", "b">>, <<"/", "a", "/">>, <<"a">>}

NextPath ==
    \/ \E path \in PosixCanonicalPaths \cup PosixOtherPaths :
           GetAncestors(FALSE, path)
    \/ \E path \in WindowsCanonicalPaths \cup WindowsOtherPaths :
           GetAncestors(TRUE, path)
    \/ GetAncestorsLoop
    \/ \E ancestorPath \in AncestryPaths, descendantPath \in AncestryPaths :
           IsAncestorOf(ancestorPath, descendantPath)

\* calls of the functions of core/path.ts; the loop of getAncestors is
\* synchronous code, so a round that can run does run
SpecPath == Init /\ [][NextPath]_vars /\ WF_vars(GetAncestorsLoop)

(***************************************************************************)
(* Path claims (SpecPath).                                                 *)
(***************************************************************************)
\* child is parent followed by one more segment
IsChildOf(child, parent, separator) ==
    LET prefix == IF parent[Len(parent)] = separator THEN parent
                  ELSE Append(parent, separator)
    IN  /\ StartsWith(child, prefix)
        /\ Len(child) > Len(prefix)
        /\ \A i \in (Len(prefix) + 1)..Len(child) : child[i] # separator

\* a getAncestors call on a canonical absolute path has returned
AncestorsReturned ==
    /\ last.op = "getAncestors"
    /\ last.pc = "done"
    /\ last.path \in (IF last.windows THEN WindowsCanonicalPaths
                      ELSE PosixCanonicalPaths)

\* the chain returned for a canonical absolute path: from the root to the
\* path, each element the parent of the next, no element twice
AncestorChain ==
    AncestorsReturned =>
        LET chain == last.ancestors
            root == IF last.windows THEN SubSeq(last.path, 1, 3) ELSE <<"/">>
            separator == IF last.windows THEN winSep ELSE sep
        IN  /\ Len(chain) >= 1
            /\ chain[1] = root
            /\ chain[Len(chain)] = last.path
            /\ \A i \in 1..(Len(chain) - 1) :
                   IsChildOf(chain[i + 1], chain[i], separator)
            /\ \A i, j \in 1..Len(chain) : chain[i] = chain[j] => i = j
            /\ last.path = root => chain = <<root>>

\* C21: every getAncestors call returns, and for a canonical absolute path
\* it returns the chain from the root ('/' or the drive root) to the path,
\* shallow to deep: the root first, the path last, each element the parent
\* of the next, no element twice, and [root] for the root.
C21_AncestorsChain ==
    /\ [](AncestorChain)
    /\ (last.op = "getAncestors" /\ last.pc = "loop")
           ~> (last.op = "getAncestors" /\ last.pc = "done")

\* the walk from C:\U\a or from /a/b has returned a chain of three
\* elements
C21_Witness ==
    /\ AncestorsReturned
    /\ Len(last.ancestors) = 3

\* the absolute paths among the arguments of isAncestorOf
AbsoluteAncestryPaths == {path \in AncestryPaths : StartsWith(path, <<sep>>)}

\* C22: on POSIX isAncestorOf(a, b) is true iff a = b or b starts with a
\* followed by '/'; the root is an ancestor of every absolute path; the
\* relation is reflexive and transitive; a partial segment (/a and /ab) and
\* a sibling (/a and /b) are rejected, and /a/b lies under /a.
C22_AncestorBySegments ==
    last.op = "isAncestorOf" =>
        LET a == last.ancestorPath
            b == last.descendantPath
        IN  /\ (a # <<>> /\ a[Len(a)] # sep) =>
                   (last.result <=> (a = b \/ StartsWith(b, Append(a, sep))))
            /\ (a = <<sep>> /\ b \in AbsoluteAncestryPaths) => last.result
            /\ a = b => last.result
            /\ last.result =>
                   \A c \in AncestryPaths :
                       isAncestorOf(b, c) => isAncestorOf(a, c)
            /\ (a = <<"/", "a">> /\ b = <<"/", "a", "b">>) => ~last.result
            /\ (a = <<"/", "a">> /\ b = <<"/", "b">>) => ~last.result
            /\ (a = <<"/", "a">> /\ b = <<"/", "a", "/", "b">>) => last.result

\* isAncestorOf was asked about /a and /ab and answered false
C22_Witness ==
    /\ last.op = "isAncestorOf"
    /\ last.ancestorPath = <<"/", "a">>
    /\ last.descendantPath = <<"/", "a", "b">>
    /\ ~last.result

(***************************************************************************)
(* core/resolver.ts: resolve, get and list as calls.                       *)
(***************************************************************************)
\* Array.from(resolved.values()): the entries of resolve(cwd) in the
\* iteration order of the Map
mapValues(cwd, rowsOf) == resolveToLoadedSecrets(cwd, rowsOf)

\* Array.prototype.sort((a, b) => a.key.localeCompare(b.key)): stable
RECURSIVE insertByKey(_, _)
insertByKey(sorted, entry) ==
    IF sorted = <<>> THEN <<entry>>
    ELSE IF localeCompareLess(entry.key, Head(sorted).key)
         THEN <<entry>> \o sorted
    ELSE <<Head(sorted)>> \o insertByKey(Tail(sorted), entry)

RECURSIVE sortByKey(_, _)
sortByKey(sorted, entries) ==
    IF entries = <<>> THEN sorted
    ELSE sortByKey(insertByKey(sorted, Head(entries)), Tail(entries))

\* a variant of list without the sort: the iteration order of the Map
listUnsorted(cwd, rowsOf) == mapValues(cwd, rowsOf)

\* Resolver.list
list(cwd, rowsOf) == sortByKey(<<>>, mapValues(cwd, rowsOf))

\* a variant of resolve that deletes the tombstones of the scope it is
\* called from
ResolvePruning(cwd, rowsOf) ==
    /\ secrets' = [pk \in {q \in DOMAIN secrets :
                              ~(q[1] = canonicalize(cwd) /\ secrets[q].isNull)} |->
                      secrets[pk]]
    /\ last' = [op |-> "resolve", cwd |-> cwd, result |-> mapValues(cwd, rowsOf)]
    /\ UNCHANGED <<trusted, inodes, session, hookState, store, shellEnv>>

\* BurrowClient.resolve: the entries of the returned Map, in its order
Resolve(cwd, rowsOf) ==
    /\ last' = [op |-> "resolve", cwd |-> cwd, result |-> mapValues(cwd, rowsOf)]
    /\ UNCHANGED <<secrets, trusted, inodes, session, hookState, store, shellEnv>>

\* BurrowClient.get
Get(key, cwd) ==
    /\ last' = [op |-> "get", key |-> key, cwd |-> cwd, result |-> get(key, cwd)]
    /\ UNCHANGED <<secrets, trusted, inodes, session, hookState, store, shellEnv>>

\* BurrowClient.list
List(cwd, rowsOf) ==
    /\ last' = [op |-> "list", cwd |-> cwd, result |-> list(cwd, rowsOf)]
    /\ UNCHANGED <<secrets, trusted, inodes, session, hookState, store, shellEnv>>

\* the scopes written and the directories read
ReadScopes == {DirRoot, DirA, DirASlashB}
ReadCwds == {DirA, DirASlashB}

NextRead ==
    \/ \E key \in StoreKeys, value \in InputValues, path \in ReadScopes :
           Set(key, value, path)
    \/ \E key \in StoreKeys, path \in ReadScopes : Block(key, path)
    \/ \E key \in StoreKeys, path \in ReadScopes : Remove(key, path)
    \/ Trust(DirA)
    \/ \E cwd \in ReadCwds : \E rowsOf \in ScopeRowOrders(cwd) : Resolve(cwd, rowsOf)
    \/ \E key \in StoreKeys, cwd \in ReadCwds : Get(key, cwd)
    \/ \E cwd \in ReadCwds : \E rowsOf \in ScopeRowOrders(cwd) : List(cwd, rowsOf)

\* reads between writes: resolve, get and list over a store that set, block
\* and remove change, next to a trust record
SpecRead == Init /\ [][NextRead]_vars

(***************************************************************************)
(* Read claims (SpecRead).                                                 *)
(***************************************************************************)
\* the entries of a returned Map or array, as a set
Entries(result) == {result[i] : i \in 1..Len(result)}

\* the entries of the map resolve(cwd), as a set
ResolvedEntries(cwd) == {resolve(cwd)[k] : k \in DOMAIN resolve(cwd)}

\* C23: resolve, get and list change no stored entry and no trust record;
\* a resolve(D) call returns the keys, values and sourcePaths that the
\* table holds for D, whatever order its rows come back in, so that a
\* second resolve(D) with no write in between returns the same map.
C23_ResolveIsPureRead ==
    [][/\ last'.op \in {"resolve", "get", "list"} =>
              /\ secrets' = secrets
              /\ trusted' = trusted
       /\ last'.op = "resolve" =>
              /\ Entries(last'.result) = ResolvedEntries(last'.cwd)
              /\ Len(last'.result) = Cardinality(ResolvedEntries(last'.cwd))
       /\ (last.op = "resolve" /\ last'.op = "resolve" /\ last'.cwd = last.cwd) =>
              Entries(last'.result) = Entries(last.result)
    ]_vars

\* resolve(/a/b) has returned two entries, one inherited from /a, over a
\* store that holds a trust record
C23_Witness ==
    /\ last.op = "resolve"
    /\ last.cwd = DirASlashB
    /\ Len(last.result) = 2
    /\ \E i \in 1..2 : last.result[i].sourcePath = DirA
    /\ DOMAIN trusted # {}

\* C24: get(k, D) is the entry of k in resolve(D), undefined when k is not
\* resolved; list(D) holds exactly the entries of resolve(D), one per key,
\* in ascending order of the keys (the order of localeCompare).
C24_GetAndListDeriveFromResolve ==
    /\ last.op = "get" =>
           last.result = ResolvedEntry(resolve(last.cwd), last.key)
    /\ last.op = "list" =>
           /\ Entries(last.result) = ResolvedEntries(last.cwd)
           /\ Len(last.result) = Cardinality(DOMAIN resolve(last.cwd))
           /\ \A i, j \in 1..Len(last.result) :
                  i < j => localeCompareLess(last.result[i].key, last.result[j].key)

\* list(/a/b) has returned the keys A and a_, in this order, one of them
\* inherited from /a
C24_Witness ==
    /\ last.op = "list"
    /\ last.cwd = DirASlashB
    /\ Len(last.result) = 2
    /\ last.result[1].key = KeyUpper
    /\ last.result[2].key = KeyLower
    /\ \E i \in 1..2 : last.result[i].sourcePath = DirA

(***************************************************************************)
(* Hook claims in a trusted directory (SpecHook).                          *)
(***************************************************************************)
\* the last call was hook with autoload enabled, and its trust check said
\* trusted
HookInsideTrust ==
    /\ last.op = "hook"
    /\ session.autoload # "0"
    /\ last.trustResult.trusted

\* C25: a hook call in a trusted directory with autoload enabled returns
\* trusted = true, the entries of resolve(cwd) as its secrets, the previous
\* keys that resolve(cwd) does not hold as unloadedKeys, and one unset
\* command for each unloaded key and for no other key; with nothing
\* resolved and no previous key there is no command and no message.
C25_HookLoadsResolvedSecrets ==
    HookInsideTrust =>
        LET result == last.result
            unsetCommands ==
                {i \in 1..Len(result.commands) : ~IsLoadCommand(result.commands[i])}
        IN  /\ result.trusted
            /\ Entries(result.secrets) = ResolvedEntries(last.cwd)
            /\ Len(result.secrets) = Cardinality(DOMAIN resolve(last.cwd))
            /\ KeysOf(result.unloadedKeys)
                   = KeysOf(last.previousKeys) \ DOMAIN resolve(last.cwd)
            /\ Len(result.unloadedKeys) = Cardinality(KeysOf(result.unloadedKeys))
            /\ \A key \in KeysOf(result.unloadedKeys) :
                   Cardinality({i \in unsetCommands :
                                   result.commands[i] \in UnsetCommandsFor(key)}) = 1
            /\ Cardinality(unsetCommands) = Len(result.unloadedKeys)
            /\ Len(result.commands) = Len(result.unloadedKeys) + Len(result.secrets)
            /\ (resolve(last.cwd) = EmptyMap /\ last.previousKeys = <<>>) =>
                   /\ result.commands = <<>>
                   /\ result.message = UndefinedMessage

\* hook ran in /a/b under the trust of /a, with a previous key that is no
\* longer resolved and a secret inherited from /a
C25_Witness ==
    /\ HookInsideTrust
    /\ last.cwd = DirASlashB
    /\ Len(last.result.unloadedKeys) = 1
    /\ \E i \in 1..Len(last.result.secrets) :
           last.result.secrets[i].sourcePath = DirA

(***************************************************************************)
(* storage/index.ts: the handle of the Storage object and the marker       *)
(* user_version of the store file.                                         *)
(***************************************************************************)
\* the largest marker a store file starts with (0: fresh, 1: supported)
MaxVersion == 2

\* Storage.ensureDb: an open handle is returned as it is; otherwise this.db
\* is assigned, the tables and indexes are created if they are missing
\* (CREATE ... IF NOT EXISTS), and the marker is read: 0 is set to 1, any
\* value other than 1 raises "Unsupported store version"
ensureDb(st) ==
    IF st.db THEN [store |-> st, threw |-> FALSE]
    ELSE LET opened == [st EXCEPT !.db = TRUE, !.schema = TRUE]
         IN  IF opened.userVersion = 0
             THEN [store |-> [opened EXCEPT !.userVersion = 1], threw |-> FALSE]
             ELSE IF opened.userVersion # 1
             THEN [store |-> opened, threw |-> TRUE]
             ELSE [store |-> opened, threw |-> FALSE]

\* a variant of close without the test of this.db: db.close() on null
\* raises
closeUnguarded(st) ==
    [store |-> [st EXCEPT !.db = FALSE], threw |-> ~st.db]

\* Storage.close
close(st) ==
    IF st.db THEN [store |-> [st EXCEPT !.db = FALSE], threw |-> FALSE]
    ELSE [store |-> st, threw |-> FALSE]

\* a call on the Storage object: whether it found the handle open, whether
\* it raised, and what it returned
StorageCall(op, path, threw, result) ==
    [op |-> op, path |-> path, wasOpen |-> store.db, threw |-> threw,
     result |-> result]

\* Storage.setSecret(path, key, value)
StorageSetSecret(canonicalPath, key, value) ==
    LET ensured == ensureDb(store)
    IN  /\ \/ <<canonicalPath, key>> \in DOMAIN secrets
           \/ Cardinality(DOMAIN secrets) < MaxEntries
        /\ store' = ensured.store
        /\ secrets' = IF ensured.threw THEN secrets
                      ELSE setSecret(secrets, canonicalPath, key, Entry(value))
        /\ last' = StorageCall("setSecret", canonicalPath, ensured.threw, {})
        /\ UNCHANGED <<trusted, inodes, session, hookState, shellEnv>>

\* Storage.getPathSecrets(path): the rows of the scope, as (key, entry) pairs
StorageGetPathSecrets(canonicalPath) ==
    LET ensured == ensureDb(store)
    IN  /\ store' = ensured.store
        /\ last' = StorageCall("getPathSecrets", canonicalPath, ensured.threw,
                               IF ensured.threw THEN {}
                               ELSE {<<key, secrets[<<canonicalPath, key>>]>> :
                                        key \in getPathSecrets(canonicalPath)})
        /\ UNCHANGED <<secrets, trusted, inodes, session, hookState, shellEnv>>

\* Storage.close()
StorageClose ==
    /\ store' = close(store).store
    /\ last' = StorageCall("close", <<>>, close(store).threw, {})
    /\ UNCHANGED <<secrets, trusted, inodes, session, hookState, shellEnv>>

\* the scopes of the storage calls
StoragePaths == {DirA, DirASlashB}

NextStorage ==
    \/ \E path \in StoragePaths, value \in InputValues :
           StorageSetSecret(path, KeyUpper, value)
    \/ \E path \in StoragePaths : StorageGetPathSecrets(path)
    \/ StorageClose

\* a Storage object right after its construction, over a store file that
\* is fresh (marker 0, no tables), was written by burrow (marker 1, with
\* its tables) or carries a marker that another writer left, with or
\* without the tables of burrow
InitStorage ==
    /\ secrets = [pk \in {} |-> Tombstone]
    /\ trusted = [p \in {} |-> 0]
    /\ inodes = InitInodes
    /\ session = [shell |-> "bash", autoload |-> "", useColor |-> TRUE]
    /\ hookState = NoHookState
    /\ store \in {st \in [db : {FALSE}, userVersion : 0..MaxVersion,
                           schema : BOOLEAN] :
                     /\ st.userVersion = 0 => ~st.schema
                     /\ st.userVersion = 1 => st.schema}
    /\ shellEnv = FreshShellEnv
    /\ last = NoCall

\* calls on one Storage object, with close() between them
SpecStorage == InitStorage /\ [][NextStorage]_vars

(***************************************************************************)
(* Storage claims (SpecStorage).                                           *)
(***************************************************************************)
\* the rows of a scope, as (key, entry) pairs
RowsOf(table, path) ==
    {<<pk[2], table[pk]>> : pk \in {q \in DOMAIN table : q[1] = path}}

\* C26: the handle is opened by the first operation and not before;
\* close() on a Storage that was never opened or is closed already changes
\* nothing and does not raise; an operation after close() on a supported
\* store opens the handle again and finds every entry that was in the
\* store at the close.
C26_HandleLifecycle ==
    [][/\ (last.op = "none" => ~store.db)
       /\ (last'.op \in {"setSecret", "getPathSecrets"} /\ last' # last) =>
              store'.db
       /\ last'.op = "close" =>
              /\ ~last'.threw
              /\ ~store'.db
              /\ secrets' = secrets
              /\ store'.userVersion = store.userVersion
              /\ ~store.db => store' = store
       /\ (/\ ~store.db
           /\ store.userVersion \in {0, 1}
           /\ last'.op = "getPathSecrets"
           /\ last' # last) =>
              /\ ~last'.threw
              /\ last'.result = RowsOf(secrets, last'.path)
              /\ secrets' = secrets
    ]_vars

\* getPathSecrets has found the handle closed, has opened it and has
\* returned an entry, which was written before the close
C26_Witness ==
    /\ last.op = "getPathSecrets"
    /\ ~last.wasOpen
    /\ ~last.threw
    /\ last.result # {}
    /\ store.db

\* C27: with a marker that is neither 0 nor 1 the first storage operation
\* raises "Unsupported store version" and leaves the marker as it is; a
\* marker of 0 is set to 1; after every operation that succeeded the marker
\* is 1.
C27_VersionGate ==
    [][(last'.op \in {"setSecret", "getPathSecrets"} /\ last' # last) =>
           /\ (last.op = "none" /\ store.userVersion \notin {0, 1}) =>
                  /\ last'.threw
                  /\ store'.userVersion = store.userVersion
                  /\ secrets' = secrets
           /\ store.userVersion = 0 => store'.userVersion = 1
           /\ ~last'.threw => store'.userVersion = 1
    ]_vars

(***************************************************************************)
(* core/hook.ts: hook rounds of two shells over one hook-state.json.  A    *)
(* round is load(), computeDiff(state, newSecrets, env) and                *)
(* applyDiff(state, diff, dir), which saves; each call is one step.        *)
(***************************************************************************)
\* the directory each shell sits in
RaceDir(shell) == IF shell = "shell1" THEN DirA ELSE DirASlashB

NoDiff == [unset |-> <<>>, set |-> <<>>, skipped |-> <<>>, unchanged |-> <<>>]

\* the locals of a round: where it stands, the state it loaded, the diff it
\* computed, the state it saved, and whether the other shell saved after
\* this round loaded
Round(pc, read, diff, saved, overtaken) ==
    [pc |-> pc, read |-> read, diff |-> diff, saved |-> saved,
     overtaken |-> overtaken]

IdleRound == Round("idle", NoHookState, NoDiff, NoHookState, FALSE)

\* no applyDiff has run yet
NothingWritten == [shell |-> "none"]

RaceStart == [op |-> "round", rounds |-> [sh \in RaceShells |-> IdleRound],
              written |-> NothingWritten]

\* const state = await manager.load()
RaceLoad(shell) ==
    /\ last.op = "round"
    /\ last.rounds[shell].pc \in {"idle", "saved"}
    /\ last' = [last EXCEPT !.rounds[shell] =
                   Round("loaded", hookState, NoDiff, NoHookState, FALSE)]
    /\ UNCHANGED <<secrets, trusted, inodes, session, hookState, store, shellEnv>>

\* const diff = manager.computeDiff(state, newSecrets, env)
RaceComputeDiff(shell, newSecrets, env) ==
    /\ last.op = "round"
    /\ last.rounds[shell].pc = "loaded"
    /\ last' = [last EXCEPT !.rounds[shell].pc = "diffed",
                            !.rounds[shell].diff =
                                computeDiff(last.rounds[shell].read, newSecrets, env)]
    /\ UNCHANGED <<secrets, trusted, inodes, session, hookState, store, shellEnv>>

\* what applyDiff of a round leaves in last: the round is saved, the rounds
\* of the other shell that have loaded are overtaken
AfterApplyDiff(shell, newState) ==
    [op |-> "round",
     rounds |-> [sh \in RaceShells |->
                    IF sh = shell
                    THEN [last.rounds[sh] EXCEPT !.pc = "saved", !.saved = newState]
                    ELSE IF last.rounds[sh].pc \in {"loaded", "diffed"}
                         THEN [last.rounds[sh] EXCEPT !.overtaken = TRUE]
                    ELSE last.rounds[sh]],
     written |-> [shell |-> shell, read |-> last.rounds[shell].read,
                  diff |-> last.rounds[shell].diff, saved |-> newState,
                  overtaken |-> last.rounds[shell].overtaken]]

\* a variant that applies the diff to the state the file holds now, not to
\* the state the round loaded
RaceApplyDiffRereading(shell) ==
    /\ last.op = "round"
    /\ last.rounds[shell].pc = "diffed"
    /\ hookState' = applyDiff(hookState, last.rounds[shell].diff, RaceDir(shell))
    /\ last' = AfterApplyDiff(shell, hookState')
    /\ UNCHANGED <<secrets, trusted, inodes, session, store, shellEnv>>

\* await manager.applyDiff(state, diff, dir): the new state is built from
\* the state the round loaded and is written over the file
RaceApplyDiff(shell) ==
    /\ last.op = "round"
    /\ last.rounds[shell].pc = "diffed"
    /\ hookState' = applyDiff(last.rounds[shell].read, last.rounds[shell].diff,
                              RaceDir(shell))
    /\ last' = AfterApplyDiff(shell, hookState')
    /\ UNCHANGED <<secrets, trusted, inodes, session, store, shellEnv>>

\* what the rounds resolve, and the environments of the shells
RaceSecretMaps == {<<>>, <<SecretA>>, <<SecretLower>>}
RaceEnvs ==
    {[key \in StoreKeys |-> UndefinedValue],
     [key \in StoreKeys |-> IF key = KeyUpper THEN ValuePlain ELSE UndefinedValue]}

NextHookRace ==
    \/ \E shell \in RaceShells : RaceLoad(shell)
    \/ \E shell \in RaceShells, newSecrets \in RaceSecretMaps, env \in RaceEnvs :
           RaceComputeDiff(shell, newSecrets, env)
    \/ \E shell \in RaceShells : RaceApplyDiff(shell)

InitHookRace ==
    /\ secrets = [pk \in {} |-> Tombstone]
    /\ trusted = [p \in {} |-> 0]
    /\ inodes = InitInodes
    /\ session = [shell |-> "bash", autoload |-> "", useColor |-> TRUE]
    /\ hookState = NoHookState
    /\ store = OpenedStore
    /\ shellEnv = FreshShellEnv
    /\ last = RaceStart

\* two shells whose hook rounds interleave in any order
SpecHookRace == InitHookRace /\ [][NextHookRace]_vars

(***************************************************************************)
(* Hook-state race claim (SpecHookRace).                                   *)
(***************************************************************************)
\* C28: when the rounds of two shells interleave, the persisted HookState
\* is the state that the applyDiff that ran last wrote, built from the
\* state that round itself loaded and from its own diff; it holds no secret
\* and no skipped key from anywhere else, so what the other shell saved in
\* between is lost.
C28_LastWriterWins ==
    (last.op = "round" /\ last.written.shell # "none") =>
        LET w == last.written
        IN  /\ hookState = w.saved
            /\ w.saved = applyDiff(w.read, w.diff, RaceDir(w.shell))
            /\ Entries(stateSecrets(hookState))
                   \subseteq Entries(stateSecrets(w.read)) \cup Entries(w.diff.set)
            /\ Entries(stateSkippedKeys(hookState))
                   \subseteq Entries(stateSkippedKeys(w.read))
                                 \cup Entries(w.diff.skipped)

\* shell2 loaded, shell1 saved a secret, then shell2 saved: the secret
\* that shell1 saved is not in the file
C28_Witness ==
    /\ last.op = "round"
    /\ last.written.shell = "shell2"
    /\ last.written.overtaken
    /\ last.rounds["shell1"].pc = "saved"
    /\ \E secret \in Entries(stateSecrets(last.rounds["shell1"].saved)) :
           secret \notin Entries(stateSecrets(hookState))

(***************************************************************************)
(* core/path.ts: canonicalize with its options and the outcomes of         *)
(* realpath.  In this part /_ is a symbolic link to /a, and the process    *)
(* runs in the root directory.                                             *)
(***************************************************************************)
\* path.resolve(inputPath): absolute, without a trailing separator
pathResolve(inputPath) ==
    IF StartsWith(inputPath, <<sep>>) THEN canonicalize(inputPath)
    ELSE <<sep>> \o inputPath

\* the directory a path leads to once links are followed
linkTarget(path) == IF path = DirUnderscore THEN DirA ELSE path

\* fs.realpath(inputPath); ioError: the call fails with an error other than
\* ENOENT (EACCES on a directory above the path)
realpath(inputPath, ioError) ==
    LET target == linkTarget(pathResolve(inputPath))
    IN  IF ioError THEN [code |-> "EACCES", path |-> <<>>]
        ELSE IF inodes[target] = 0 THEN [code |-> "ENOENT", path |-> <<>>]
        ELSE [code |-> "ok", path |-> target]

\* a variant without the fallback: every error of realpath is thrown
canonicalizeWithoutFallback(inputPath, followSymlinks, ioError) ==
    IF followSymlinks
    THEN LET real == realpath(inputPath, ioError)
         IN  IF real.code = "ok" THEN [threw |-> FALSE, path |-> real.path]
             ELSE [threw |-> TRUE, path |-> <<>>]
    ELSE [threw |-> FALSE, path |-> pathResolve(inputPath)]

\* canonicalize(inputPath, {followSymlinks}) on POSIX
canonicalizeCall(inputPath, followSymlinks, ioError) ==
    IF followSymlinks
    THEN LET real == realpath(inputPath, ioError)
         IN  IF real.code = "ok" THEN [threw |-> FALSE, path |-> real.path]
             ELSE IF real.code = "ENOENT"
             THEN [threw |-> FALSE, path |-> pathResolve(inputPath)]
             ELSE [threw |-> TRUE, path |-> <<>>]
    ELSE [threw |-> FALSE, path |-> pathResolve(inputPath)]

\* a call that begins with canonicalize: its arguments, whether the path
\* was missing when it ran, and its outcome
PathCall(op, key, inputPath, followSymlinks, ioError, canonical) ==
    [op |-> op, key |-> key, path |-> inputPath, followSymlinks |-> followSymlinks,
     ioError |-> ioError,
     missing |-> inodes[linkTarget(pathResolve(inputPath))] = 0,
     threw |-> canonical.threw, result |-> canonical.path]

Canonicalize(inputPath, followSymlinks, ioError) ==
    /\ last' = PathCall("canonicalize", <<>>, inputPath, followSymlinks, ioError,
                        canonicalizeCall(inputPath, followSymlinks, ioError))
    /\ UNCHANGED <<secrets, trusted, inodes, session, hookState, store, shellEnv>>

\* BurrowClient.set and BurrowClient.block with a well-formed key, on a
\* client built with the option followSymlinks; entry is the value or the
\* tombstone
SetAt(op, key, entry, inputPath, followSymlinks, ioError) ==
    LET canonical == canonicalizeCall(inputPath, followSymlinks, ioError)
    IN  /\ validateEnvKey(key)
        /\ canonical.threw \/ RoomFor(canonical.path, key)
        /\ secrets' = IF canonical.threw THEN secrets
                      ELSE setSecret(secrets, canonical.path, key, entry)
        /\ last' = PathCall(op, key, inputPath, followSymlinks, ioError, canonical)
        /\ UNCHANGED <<trusted, inodes, session, hookState, store, shellEnv>>

\* the paths handed to canonicalize: /a, /a/, /a/b, the link /_ and the
\* relative path a
CanonInputPaths ==
    {DirA, <<"/", "a", "/">>, DirASlashB, DirUnderscore, <<"a">>}

NextCanon ==
    \/ \E inputPath \in CanonInputPaths, followSymlinks \in BOOLEAN,
          ioError \in BOOLEAN :
           Canonicalize(inputPath, followSymlinks, ioError)
    \/ \E inputPath \in CanonInputPaths, followSymlinks \in BOOLEAN,
          ioError \in BOOLEAN :
           SetAt("set", KeyUpper, Entry(ValuePlain), inputPath, followSymlinks, ioError)
    \/ \E inputPath \in CanonInputPaths, followSymlinks \in BOOLEAN,
          ioError \in BOOLEAN :
           SetAt("block", KeyUpper, Tombstone, inputPath, followSymlinks, ioError)
    \/ \E dir \in {DirA, DirASlashB} : RemoveDir(dir)
    \/ \E dir \in {DirA, DirASlashB}, ino \in 1..MaxInode : CreateDir(dir, ino)

\* canonicalize, set and block over directories that come and go
SpecCanon == Init /\ [][NextCanon]_vars

(***************************************************************************)
(* Canonicalization claim (SpecCanon).                                     *)
(***************************************************************************)
\* C29: canonicalize does not fail because the path is missing: with
\* followSymlinks true a missing target falls back to the lexical absolute
\* path, with followSymlinks false the result is always the lexical
\* absolute path, and every other error of the symlink resolution is
\* thrown; set and block on a missing directory succeed and store the scope
\* at its lexical absolute path.
C29_MissingPathFallsBack ==
    last.op \in {"canonicalize", "set", "block"} =>
        /\ (last.followSymlinks /\ last.missing /\ ~last.ioError) =>
               /\ ~last.threw
               /\ last.result = pathResolve(last.path)
        /\ ~last.followSymlinks =>
               /\ ~last.threw
               /\ last.result = pathResolve(last.path)
        /\ (last.followSymlinks /\ last.ioError) => last.threw
        /\ (last.op \in {"set", "block"} /\ last.missing
                /\ ~(last.followSymlinks /\ last.ioError)) =>
               /\ ~last.threw
               /\ <<pathResolve(last.path), last.key>> \in DOMAIN secrets
               /\ secrets[<<pathResolve(last.path), last.key>>]
                      = (IF last.op = "set" THEN Entry(ValuePlain) ELSE Tombstone)

\* set was called through the link /_ while its target /a was missing, and
\* the scope was stored at /_
C29_Witness ==
    /\ last.op = "set"
    /\ last.path = DirUnderscore
    /\ last.followSymlinks
    /\ last.missing
    /\ <<DirUnderscore, KeyUpper>> \in DOMAIN secrets

(***************************************************************************)
(* Hook message claim (SpecHookState).                                     *)
(***************************************************************************)
\* the message without the colour codes around it
MessageBody(message) ==
    IF session.useColor THEN SubSeq(message, 5, Len(message) - 4) ELSE message

EndsWith(s, suffix) ==
    /\ Len(suffix) <= Len(s)
    /\ SubSeq(s, Len(s) - Len(suffix) + 1, Len(s)) = suffix

\* C30: formatHookMessage returns no message iff the diff sets nothing and
\* unsets nothing, also when it skips keys or leaves keys unchanged;
\* otherwise the message begins with "burrow: loaded N" (sets only),
\* "burrow: unloaded N" (unsets only) or "burrow: unloaded U, loaded L"
\* (both), and ends with " (K skipped)" exactly when K keys were skipped,
\* K > 0.
C30_MessageCounts ==
    last.op = "computeDiff" =>
        LET loaded == Len(last.diff.set)
            unloaded == Len(last.diff.unset)
            skippedCount == Len(last.diff.skipped)
            body == MessageBody(last.message)
            burrow == <<"b", "u", "r", "r", "o", "w", ":", " ">>
            loadedText == <<"l", "o", "a", "d", "e", "d", " ">>
            unloadedText == <<"u", "n", "l", "o", "a", "d", "e", "d", " ">>
            skippedText(k) == <<" ", "(">> \o toDigits(k)
                                  \o <<" ", "s", "k", "i", "p", "p", "e", "d", ")">>
        IN  /\ last.message = UndefinedMessage <=> (loaded = 0 /\ unloaded = 0)
            /\ (loaded > 0 /\ unloaded = 0) =>
                   StartsWith(body, burrow \o loadedText \o toDigits(loaded))
            /\ (loaded = 0 /\ unloaded > 0) =>
                   /\ StartsWith(body, burrow \o unloadedText \o toDigits(unloaded))
                   /\ \A i \in 1..Len(body) : body[i] # ","
            /\ (loaded > 0 /\ unloaded > 0) =>
                   StartsWith(body, burrow \o unloadedText \o toDigits(unloaded)
                                        \o <<",", " ">> \o loadedText \o toDigits(loaded))
            /\ (loaded > 0 \/ unloaded > 0) =>
                   /\ skippedCount > 0 => EndsWith(body, skippedText(skippedCount))
                   /\ skippedCount = 0 => \A i \in 1..Len(body) : body[i] # "("

\* a diff that skips a key and sets and unsets nothing: no message
C30_Witness ==
    /\ last.op = "computeDiff"
    /\ Len(last.diff.skipped) > 0
    /\ Len(last.diff.set) = 0
    /\ Len(last.diff.unset) = 0
    /\ last.message = UndefinedMessage

(***************************************************************************)
(* core/hook.ts: whole hook rounds of the persisted-state design.  A round *)
(* of a shell is load(), computeDiff(state, resolved, env) with the        *)
(* environment of that shell, applyDiff(state, diff, dir), and the shell   *)
(* running the commands of generateShellCommands(diff, shell).  Between    *)
(* rounds the user of a shell exports and unsets variables.                *)
(***************************************************************************)
\* process.env of the hook process started by a shell: the values of the
\* variables of that shell
processEnv(shell) == [key \in StoreKeys |-> shellEnv[shell][key].value]

\* what the commands of generateShellCommands(diff, shell) leave in the
\* environment of the shell that runs them: "unset K" / "set -e K" for the
\* keys of diff.unset, then "export K=V" / "set -gx K V" for diff.set
runCommands(env, diff) ==
    [key \in StoreKeys |->
        IF mapHas(diff.set, key)
        THEN [value |-> mapGet(diff.set, key).value, byTool |-> TRUE,
              wasSetByTool |-> TRUE]
        ELSE IF Includes(diff.unset, key)
        THEN [env[key] EXCEPT !.value = UndefinedValue, !.byTool = FALSE]
        ELSE env[key]]

\* a round that hands applyDiff no current state
HookRoundWithoutState(shell, newSecrets) ==
    LET state == hookState
        diff == computeDiff(state, newSecrets, processEnv(shell))
    IN  /\ hookState' = applyDiff(NoHookState, diff, RaceDir(shell))
        /\ shellEnv' = [shellEnv EXCEPT ![shell] = runCommands(@, diff)]
        /\ last' = [op |-> "hookRound", shell |-> shell, state |-> state,
                    newSecrets |-> newSecrets, env |-> shellEnv[shell],
                    diff |-> diff,
                    message |-> coreFormatHookMessage(diff, session.useColor)]
        /\ UNCHANGED <<secrets, trusted, inodes, session, store>>

\* one hook round of a shell
HookRound(shell, newSecrets) ==
    LET state == hookState
        diff == computeDiff(state, newSecrets, processEnv(shell))
    IN  /\ hookState' = applyDiff(state, diff, RaceDir(shell))
        /\ shellEnv' = [shellEnv EXCEPT ![shell] = runCommands(@, diff)]
        /\ last' = [op |-> "hookRound", shell |-> shell, state |-> state,
                    newSecrets |-> newSecrets, env |-> shellEnv[shell],
                    diff |-> diff,
                    message |-> coreFormatHookMessage(diff, session.useColor)]
        /\ UNCHANGED <<secrets, trusted, inodes, session, store>>

\* the user of a shell exports a variable
UserExport(shell, key, value) ==
    /\ shellEnv' = [shellEnv EXCEPT ![shell][key].value = value,
                                    ![shell][key].byTool = FALSE]
    /\ last' = [op |-> "userExport", shell |-> shell]
    /\ UNCHANGED <<secrets, trusted, inodes, session, hookState, store>>

\* the user of a shell unsets a variable
UserUnset(shell, key) ==
    /\ shellEnv[shell][key].value # UndefinedValue
    /\ shellEnv' = [shellEnv EXCEPT ![shell][key].value = UndefinedValue,
                                    ![shell][key].byTool = FALSE]
    /\ last' = [op |-> "userUnset", shell |-> shell]
    /\ UNCHANGED <<secrets, trusted, inodes, session, hookState, store>>

\* values a user gives to a variable
UserValues == {ValuePlain, <<>>}

SessionSteps(shells, secretMaps, userKeys) ==
    \/ \E shell \in shells, newSecrets \in secretMaps :
           HookRound(shell, newSecrets)
    \/ \E shell \in shells, key \in userKeys, value \in UserValues :
           UserExport(shell, key, value)
    \/ \E shell \in shells, key \in userKeys : UserUnset(shell, key)

NextRounds == SessionSteps({"shell1"}, NewSecretMaps, StoreKeys)

\* the hook rounds of one shell session
SpecRounds == Init /\ [][NextRounds]_vars

NextSessions == SessionSteps(RaceShells, RaceSecretMaps, {KeyUpper})

\* the hook rounds of two shell sessions over one config directory, one
\* whole round at a time
SpecSessions == Init /\ [][NextSessions]_vars

(***************************************************************************)
(* Hook round claims (SpecRounds, SpecSessions).                           *)
(***************************************************************************)
\* a variable of the environment that is defined and that burrow has
\* never set in that shell
UserDefined(env, key) ==
    env[key].value # UndefinedValue /\ ~env[key].wasSetByTool

\* C31: in no hook round is a variable that the shell defines and that
\* burrow did not set the target of a set command of the round.
C31_NoClobbering ==
    last.op = "hookRound" =>
        \A i \in 1..Len(last.diff.set) :
            ~UserDefined(last.env, last.diff.set[i].key)


\* a hook round that follows a hook round of the same shell with the same
\* resolved secrets: the rounds are consecutive steps, so nothing was
\* written, no directory was changed and the environment is as the
\* commands of the first round left it
RoundRepeated ==
    /\ last.op = "hookRound"
    /\ last'.op = "hookRound"
    /\ last'.shell = last.shell
    /\ last'.newSecrets = last.newSecrets

\* C32: a hook round that repeats the round before it, with nothing done
\* in between, has a diff with no set and no unset entry (every resolved
\* key is unchanged or skipped) and no message.
C32_RoundsAreIdempotent ==
    [][RoundRepeated =>
           /\ last'.diff.set = <<>>
           /\ last'.diff.unset = <<>>
           /\ last'.message = UndefinedMessage]_vars


\* C33: after every hook round the persisted secrets are exactly the
\* resolved secrets whose key the diff of the round did not skip: the same
\* keys, values and sourcePaths, one entry per key, and no entry for a key
\* that the round did not resolve.
C33_StateIsResolvedMinusSkipped ==
    last.op = "hookRound" =>
        /\ hookState.exists
        /\ Entries(hookState.secrets) =
               {secret \in Entries(last.newSecrets) :
                   ~Includes(last.diff.skipped, secret.key)}
        /\ NoRepeats([i \in 1..Len(hookState.secrets) |-> hookState.secrets[i].key])

\* a round that left a key behind, changed the value of another and skipped
\* nothing, after a round that had skipped a key
C33_Witness ==
    /\ last.op = "hookRound"
    /\ last.diff.unset # <<>>
    /\ last.diff.set # <<>>
    /\ last.state.exists
    /\ last.state.skippedKeys # <<>>
    /\ hookState.secrets # <<>>


\* the keys a round resolved
ResolvedKeys(newSecrets) == {newSecrets[i].key : i \in 1..Len(newSecrets)}

\* C34: in every hook round of a shell the keys the round unsets are keys
\* that burrow has set in that same shell before, and every variable of
\* that shell that holds a value burrow set and whose key the round no
\* longer resolves is unset by the round, whatever rounds other shells ran
\* in between.
C34_PerSessionTracking ==
    last.op = "hookRound" =>
        /\ \A i \in 1..Len(last.diff.unset) :
               last.env[last.diff.unset[i]].wasSetByTool
        /\ \A key \in StoreKeys :
               (last.env[key].byTool /\ key \notin ResolvedKeys(last.newSecrets))
                   => Includes(last.diff.unset, key)


(***************************************************************************)
(* Trust and filesystem claim (SpecTrust).                                 *)
(***************************************************************************)
\* the directories whose inode or existence a step changes
ChangedDirs == {d \in Dirs : inodes'[d] # inodes[d]}

\* T lies strictly above C
StrictlyAbove(T, C) == T # C /\ isAncestorOf(T, C)

\* C and the directories strictly between T and C
BelowTrustedPath(T, C) ==
    {d \in Dirs : StrictlyAbove(T, d) /\ isAncestorOf(d, C)}

\* a step that changes the filesystem, seen from a target D whose check
\* returns a trusted path T strictly above D: the step changes only D or
\* directories strictly between T and D, as long as allowed(d) holds of
\* them, and the check of D is the same after the step
SameTrustAcross(allowed(_)) ==
    \A D \in CheckInputPaths :
        \A rowOrder \in RowOrders(getTrustedAncestorPaths(canonicalize(D))) :
            LET before == isTrusted(D, FALSE, rowOrder)
                T == before.trustedPath
            IN  (/\ ChangedDirs # {}
                 /\ before.trusted
                 /\ StrictlyAbove(T, canonicalize(D))
                 /\ ChangedDirs \subseteq BelowTrustedPath(T, canonicalize(D))
                 /\ \A d \in ChangedDirs : allowed(d))
                    => isTrusted(D, FALSE, rowOrder)' = before

HasNoTrustRecord(d) == d \notin DOMAIN trusted

AnyDirectory(d) == TRUE

\* C35: for D strictly below the trusted path T that isTrusted(D) returns,
\* isTrusted(D) returns trusted with trustedPath T both before and after a
\* change of the inode or existence of D or of directories strictly
\* between T and D, provided none of the directories that change has a
\* trust record.
C35_TrustIgnoresUntrustedDirs == [][SameTrustAcross(HasNoTrustRecord)]_vars

\* C35 as first stated, for any directories between T and D: isTrusted(D)
\* returns trusted with trustedPath T both before and after a change of the
\* inode or existence of D or of directories strictly between T and D.
C35_TrustIgnoresDirsBelow == [][SameTrustAcross(AnyDirectory)]_vars

\* / is trusted and valid, /a was removed and has no trust record, and the
\* check of /a/b still returns /
C35_Witness ==
    /\ last = FsChange
    /\ DirRoot \in DOMAIN trusted
    /\ inodes[DirRoot] = trusted[DirRoot]
    /\ DirA \notin DOMAIN trusted
    /\ inodes[DirA] = 0
    /\ isTrusted(DirASlashB, FALSE, <<DirRoot>>) = TrustCheck(TRUE, DirRoot, "")


(***************************************************************************)
(* core/path.ts: getAncestors as a function of its argument (POSIX)        *)
(***************************************************************************)
\* the while (true) loop of getAncestors from current on
RECURSIVE getAncestorsFrom(_, _)
getAncestorsFrom(current, ancestors) ==
    LET pushed == Append(ancestors, current)
        parent == getParentPath(current)
    IN  IF parent = current THEN reverse(pushed)
        ELSE getAncestorsFrom(parent, pushed)

getAncestors(canonicalPath) == getAncestorsFrom(canonicalPath, <<>>)

(***************************************************************************)
(* Agreement of the ancestry computations (SpecStore).                     *)
(***************************************************************************)
\* C36: on POSIX, for every canonical target C, getAncestorPaths(C) is the
\* set of stored scope paths P with isAncestorOf(P, C), which is the set
\* of stored scope paths that occur in getAncestors(C); and
\* getTrustedAncestorPaths(C) is the same two sets taken over the paths of
\* the trust records.
C36_AncestryImplementationsAgree ==
    \A C \in Dirs :
        /\ getAncestorPaths(C) = {P \in getAllPaths : isAncestorOf(P, C)}
        /\ getAncestorPaths(C) = getAllPaths \cap Entries(getAncestors(C))
        /\ getTrustedAncestorPaths(C) = {P \in DOMAIN trusted : isAncestorOf(P, C)}
        /\ getTrustedAncestorPaths(C) = DOMAIN trusted \cap Entries(getAncestors(C))


(***************************************************************************)
(* Agreement of the two hook designs (SpecHookState).                      *)
(***************************************************************************)
\* the keys the persisted state holds as loaded, as the Set of previousKeys
\* that the design of api.ts is handed
LoadedKeys(state) ==
    toKeySet([i \in 1..Len(stateSecrets(state)) |-> stateSecrets(state)[i].key])

\* C37: for the same previously loaded keys and the same resolved secrets,
\* computeDiff and computeHookDiff return the same unset keys, and toSet of
\* computeHookDiff holds the set entries of computeDiff and the resolved
\* secrets of its unchanged and skipped keys, and nothing else.
C37_HookDesignsAgree ==
    last.op = "computeDiff" =>
        LET stateless == computeHookDiff(LoadedKeys(last.state), last.newSecrets)
        IN  /\ stateless.toUnset = last.diff.unset
            /\ Entries(stateless.toSet) =
                   Entries(last.diff.set)
                       \cup {secret \in Entries(last.newSecrets) :
                                \/ Includes(last.diff.unchanged, secret.key)
                                \/ Includes(last.diff.skipped, secret.key)}
            /\ Len(stateless.toSet) =
                   Len(last.diff.set) + Len(last.diff.unchanged)
                       + Len(last.diff.skipped)

\* the state holds A and a_; a_ is resolved again and A is not: both designs
\* unset A, the persisted one leaves a_ unchanged, the other sets it again
C37_Witness ==
    /\ last.op = "computeDiff"
    /\ last.diff.unset = <<KeyUpper>>
    /\ last.diff.unchanged = <<KeyLower>>
    /\ last.diff.set = <<>>
    /\ computeHookDiff(LoadedKeys(last.state), last.newSecrets).toSet
           = <<SecretLower>>


\* C38: over a store whose marker is neither 0 nor 1, every operation on
\* the Storage object raises "Unsupported store version", the first one
\* and every one after it, and no operation creates the tables and indexes
\* in that store.
C38_UnsupportedStoreIsNeverServed ==
    [][store.userVersion \notin {0, 1} =>
           /\ last'.op \in {"setSecret", "getPathSecrets"} => last'.threw
           /\ store'.schema = store.schema]_vars

====
